---- MODULE Spec2Model ----
(***************************************************************************)
(* State-machine model of the conversational backend:                      *)
(*   - ConversationStore   (core/services/chat_service.py)                 *)
(*   - SystemPromptStore   (core/services/system_prompt_service.py)        *)
(*   - Agent               (core/agent.py)                                 *)
(*   - the /send pipeline  (api/chat_api.py)                               *)
(*   - emotion -> audio    (api/tts_api.py)                                *)
(* The database is the SQLite file of database/database_model.py: rows are *)
(* sets of records, a session's writes become visible at its commit.       *)
(***************************************************************************)
EXTENDS Integers, Sequences, FiniteSets, TLC

VARIABLES
    conversations,   \* committed rows of table conversations
    messages,        \* committed rows of table messages
    system_prompts,  \* committed rows of table system_prompts
    now,             \* the wall clock read by DateUtils.now()
    last,            \* the last completed store call: its arguments and result
    req,             \* the /send requests in flight: position and local variables
    txn,             \* set_active_system_prompt calls in flight: their open sessions
    agent,           \* an AIAgent instance and the call it is serving
    tts,             \* a /synthesize request: position and local variables
    uow              \* a ChatService call step by step: its session, and the
                     \* sessions earlier calls left open

vars == <<conversations, messages, system_prompts, now, last, req, txn, agent, tts, uow>>

(* What an action of one component leaves alone in the others. *)
notStore == <<system_prompts, req, txn, agent, tts, uow>>

----------------------------------------------------------------------------
(* Bounds of the model *)

MaxConversationId == 2
MaxMessageId == 2
MaxTime == 1

Users == {1, 2}
ConvIds == 1..MaxConversationId
Roles == {"user", "assistant"}

----------------------------------------------------------------------------
(* Optional values: Python's None and a present value *)

None == <<>>
Some(v) == <<v>>
IsSome(o) == o # <<>>
TheValue(o) == o[1]

Max(S) == CHOOSE x \in S : \A y \in S : y <= x

(* Text is a sequence of characters. *)
Hi == <<"h", "i">>
Blank == <<" ">>
StoreTexts == {Hi}

----------------------------------------------------------------------------
(* Row identity: INTEGER PRIMARY KEY of a SQLite table without AUTOINCREMENT:
   the next rowid is one more than the largest rowid in the table. *)
NextId(rows) == IF rows = {} THEN 1 ELSE Max({r.id : r \in rows}) + 1

----------------------------------------------------------------------------
(* ChatService.generate_conversation_title *)

TitleMax == 20
DefaultTitle == <<"xin", "dui", "hua">>   \* the placeholder title, three characters
Ellipsis == <<".", ".", ".">>
IsSpace(ch) == ch \in {" ", "\t", "\n"}

NoStrip(s) == s

RECURSIVE LStrip(_)
LStrip(s) == IF s # <<>> /\ IsSpace(Head(s)) THEN LStrip(Tail(s)) ELSE s

RECURSIVE RStrip(_)
RStrip(s) ==
    IF s # <<>> /\ IsSpace(s[Len(s)]) THEN RStrip(SubSeq(s, 1, Len(s) - 1)) ELSE s

Strip(s) == RStrip(LStrip(s))

Prefix(s, n) == SubSeq(s, 1, IF Len(s) < n THEN Len(s) ELSE n)

generate_conversation_title(first_message) ==
    IF first_message = <<>> \/ Strip(first_message) = <<>>
    THEN DefaultTitle
    ELSE IF Len(Strip(first_message)) > TitleMax
         THEN Prefix(Strip(first_message), TitleMax) \o Ellipsis
         ELSE Prefix(Strip(first_message), TitleMax)

----------------------------------------------------------------------------
(* ConversationStore: queries *)

QueryConversationById(c, u) ==
    {cv \in conversations : cv.id = c}

QueryConversation(c, u) ==
    {cv \in conversations : cv.id = c /\ cv.user_id = u}

get_conversation(c, u) ==
    IF QueryConversation(c, u) = {} THEN None
    ELSE Some(CHOOSE cv \in QueryConversation(c, u) : TRUE)

(* ties in the reverse of rowid order *)
MessageBeforeTiesReversed(m1, m2) ==
    \/ m1.created_at < m2.created_at
    \/ m1.created_at = m2.created_at /\ m1.id > m2.id

(* ties by role, the assistant first *)
MessageBeforeAssistantFirst(m1, m2) ==
    \/ m1.created_at < m2.created_at
    \/ m1.created_at = m2.created_at /\ m1.role = "assistant" /\ m2.role = "user"
    \/ m1.created_at = m2.created_at /\ m1.role = m2.role /\ m1.id < m2.id

(* ORDER BY created_at ASC over a rowid scan: ties keep rowid order. *)
MessageBefore(m1, m2) ==
    \/ m1.created_at < m2.created_at
    \/ m1.created_at = m2.created_at /\ m1.id < m2.id

RECURSIVE OrderMessages(_)
OrderMessages(S) ==
    IF S = {} THEN <<>>
    ELSE LET m == CHOOSE x \in S : \A y \in S \ {x} : MessageBefore(x, y)
         IN  <<m>> \o OrderMessages(S \ {m})

(* OFFSET offset LIMIT limit *)
Page(s, limit, offset) ==
    SubSeq(s, offset + 1, IF Len(s) < offset + limit THEN Len(s) ELSE offset + limit)

DefaultMessageLimit == 50

MessagesOf(c) == {m \in messages : m.conversation_id = c}

get_messages(c, u, limit, offset) ==
    IF QueryConversation(c, u) = {} THEN <<>>
    ELSE Page(OrderMessages(MessagesOf(c)), limit, offset)

----------------------------------------------------------------------------
(* ConversationStore: writes, as the effect of the committed transaction *)

NewConversation(u) ==
    [id |-> NextId(conversations), user_id |-> u, title |-> None,
     updated_at |-> now]

NewMessageDefaultRole(c, role, content) ==
    [id |-> NextId(messages), conversation_id |-> c, role |-> "user",
     content |-> content, created_at |-> now]

NewMessage(c, role, content) ==
    [id |-> NextId(messages), conversation_id |-> c, role |-> role,
     content |-> content, created_at |-> now]

StampConversation(c) ==
    {IF cv.id = c THEN [cv EXCEPT !.updated_at = now] ELSE cv : cv \in conversations}

CanInsertConversation == NextId(conversations) <= MaxConversationId
CanInsertMessage == NextId(messages) <= MaxMessageId

----------------------------------------------------------------------------
(* ConversationStore: one action per store call *)

Call(op, c, u, ret) == [op |-> op, c |-> c, u |-> u, ret |-> ret]

(* DateUtils.now(): the clock moves between calls; two calls may read the
   same instant. *)
Tick ==
    /\ now < MaxTime
    /\ now' = now + 1
    /\ UNCHANGED <<conversations, messages, system_prompts, last, req, txn, agent, tts, uow>>

create_conversation(u) ==
    /\ CanInsertConversation
    /\ conversations' = conversations \cup {NewConversation(u)}
    /\ last' = Call("create_conversation", NextId(conversations), u, "ok")
    /\ UNCHANGED <<messages, now>>
    /\ UNCHANGED notStore

add_message(c, u, content, role) ==
    /\ IF QueryConversation(c, u) = {}
       THEN /\ last' = Call("add_message", c, u, "ValueError")
            /\ UNCHANGED <<conversations, messages>>
       ELSE /\ CanInsertMessage
            /\ messages' = messages \cup {NewMessage(c, role, content)}
            /\ conversations' = StampConversation(c)
            /\ last' = Call("add_message", c, u, "ok")
    /\ UNCHANGED now
    /\ UNCHANGED notStore

(* update_conversation changes a detached copy and commits a fresh, empty
   session; refresh of the detached copy then raises. Nothing is stored. *)
update_conversation(c, u, title) ==
    /\ last' = Call("update_conversation", c, u,
                    IF QueryConversation(c, u) = {} THEN "absent"
                    ELSE "InvalidRequestError")
    /\ UNCHANGED <<conversations, messages, now>>
    /\ UNCHANGED notStore

(* What delete_conversation returns: False when the conversation does not
   resolve for the user, True after the rows are deleted. *)
delete_conversation_returns(c, u) ==
    IF get_conversation(c, u) = None THEN "false" ELSE "true"

(* a DELETE without the conversation filter *)
DeletedMessagesAll(c) == messages

DeletedMessagesNone(c) == {}

DeletedMessages(c) == MessagesOf(c)

delete_conversation(c, u) ==
    /\ IF get_conversation(c, u) = None
       THEN UNCHANGED <<conversations, messages>>
       ELSE /\ messages' = messages \ DeletedMessages(c)
            /\ conversations' = conversations \ QueryConversation(c, u)
    /\ last' = Call("delete_conversation", c, u, delete_conversation_returns(c, u))
    /\ UNCHANGED now
    /\ UNCHANGED notStore


----------------------------------------------------------------------------
(* SystemPromptStore *)

MaxPromptId == 2
PromptIds == 1..MaxPromptId
PromptTexts == {"P1", "P2"}
Txns == {1, 2}

PromptsOf(u) == {sp \in system_prompts : sp.user_id = u}
ActivePromptsOf(u) == {sp \in PromptsOf(u) : sp.is_active}

(* the row with the largest rowid *)
FirstFromTheEnd(rows) ==
    IF rows = {} THEN None
    ELSE Some(CHOOSE r \in rows : \A o \in rows : r.id >= o.id)

(* query(...).first() without ORDER BY: the row with the smallest rowid *)
First(rows) ==
    IF rows = {} THEN None
    ELSE Some(CHOOSE r \in rows : \A o \in rows : r.id <= o.id)

get_active_only(u) == First(ActivePromptsOf(u))

get_active_system_prompt(u) ==
    IF ActivePromptsOf(u) # {} THEN First(ActivePromptsOf(u))
    ELSE First(PromptsOf(u))

(* The write lock of the SQLite file: a session that has executed a write
   holds it until it commits or rolls back; other writers wait or give up. *)
WriteLockHolders == {t \in Txns : txn.session[t].pc = "deactivated"}
WriteLockFree == WriteLockHolders = {}

notPrompts == <<conversations, messages, now, req, agent, tts, uow>>

CanInsertPrompt == NextId(system_prompts) <= MaxPromptId

PromptCreated(u, content) ==
    system_prompts \cup
        {[id |-> NextId(system_prompts), user_id |-> u, content |-> content,
          is_active |-> FALSE]}

create_system_prompt(u, content) ==
    /\ WriteLockFree
    /\ CanInsertPrompt
    /\ system_prompts' = PromptCreated(u, content)
    /\ last' = Call("create_system_prompt", NextId(system_prompts), u, "ok")
    /\ UNCHANGED txn
    /\ UNCHANGED notPrompts

(* update, activate and deactivate address the first prompt of the user. *)
SetFirst(u, field, value) ==
    {IF Some(sp) = First(PromptsOf(u))
     THEN (IF field = "content" THEN [sp EXCEPT !.content = value]
                                ELSE [sp EXCEPT !.is_active = value])
     ELSE sp : sp \in system_prompts}

update_system_prompt(u, content) ==
    /\ WriteLockFree
    /\ system_prompts' = SetFirst(u, "content", content)
    /\ last' = Call("update_system_prompt", 0, u,
                    IF PromptsOf(u) = {} THEN "absent" ELSE "ok")
    /\ UNCHANGED txn
    /\ UNCHANGED notPrompts

ActivateFirst(u) == SetFirst(u, "is_active", TRUE)

activate_system_prompt(u) ==
    /\ WriteLockFree
    /\ system_prompts' = ActivateFirst(u)
    /\ last' = Call("activate_system_prompt", 0, u,
                    IF PromptsOf(u) = {} THEN "AttributeError" ELSE "true")
    /\ UNCHANGED txn
    /\ UNCHANGED notPrompts

deactivate_system_prompt(u) ==
    /\ WriteLockFree
    /\ system_prompts' = SetFirst(u, "is_active", FALSE)
    /\ last' = Call("deactivate_system_prompt", 0, u,
                    IF PromptsOf(u) = {} THEN "AttributeError" ELSE "true")
    /\ UNCHANGED txn
    /\ UNCHANGED notPrompts

PromptDeleted(u, p) ==
    {sp \in system_prompts : ~(sp.user_id = u /\ sp.id = p)}

delete_system_prompt(u, p) ==
    /\ WriteLockFree
    /\ system_prompts' = PromptDeleted(u, p)
    /\ last' = Call("delete_system_prompt", p, u,
                    IF \E sp \in PromptsOf(u) : sp.id = p THEN "true" ELSE "false")
    /\ UNCHANGED txn
    /\ UNCHANGED notPrompts

(* set_active_system_prompt, one session t: the UPDATE that deactivates the
   user's prompts takes the write lock; the session then looks the target
   up, activates it when it resolves, and commits. On the path that returns
   False the context manager of get_session commits as well. *)
IdleSession == [pc |-> "idle", user_id |-> 0, target |-> 0]

set_active_deactivate(t, u, p) ==
    /\ txn.session[t].pc = "idle"
    /\ WriteLockFree
    /\ txn' = [txn EXCEPT !.session[t] =
                   [pc |-> "deactivated", user_id |-> u, target |-> p]]
    /\ UNCHANGED <<system_prompts, last>>
    /\ UNCHANGED notPrompts

(* rows left as they were when the target does not resolve *)
SetActiveCommittedOnSuccessOnly(u, p) ==
    IF \E sp \in system_prompts : sp.user_id = u /\ sp.id = p
    THEN {IF sp.user_id = u THEN [sp EXCEPT !.is_active = (sp.id = p)] ELSE sp :
             sp \in system_prompts}
    ELSE system_prompts

(* an UPDATE without the user_id filter *)
SetActiveCommittedAllUsers(u, p) ==
    {[sp EXCEPT !.is_active = (sp.user_id = u /\ sp.id = p)] : sp \in system_prompts}

(* The rows as the committing session leaves them. *)
SetActiveCommitted(u, p) ==
    {IF sp.user_id = u THEN [sp EXCEPT !.is_active = (sp.id = p)] ELSE sp :
        sp \in system_prompts}

set_active_returns(u, p) ==
    IF \E sp \in PromptsOf(u) : sp.id = p THEN "true" ELSE "false"

set_active_commit(t) ==
    LET u == txn.session[t].user_id
        p == txn.session[t].target
    IN  /\ txn.session[t].pc = "deactivated"
        /\ system_prompts' = SetActiveCommitted(u, p)
        /\ last' = Call("set_active_system_prompt", p, u, set_active_returns(u, p))
        /\ txn' = [txn EXCEPT
                     !.session[t] = IdleSession,
                     !.committed[u] =
                        IF set_active_returns(u, p) = "true" THEN Some(p) ELSE @]
        /\ UNCHANGED notPrompts

(* A failure inside the session (the lookup or the flush raises): rollback. *)
set_active_rollback(t) ==
    /\ txn.session[t].pc = "deactivated"
    /\ last' = Call("set_active_system_prompt", txn.session[t].target,
                    txn.session[t].user_id, "raise")
    /\ txn' = [txn EXCEPT !.session[t] = IdleSession]
    /\ UNCHANGED system_prompts
    /\ UNCHANGED notPrompts

(* The UPDATE of a second session while the lock is held gives up with
   "database is locked": the session rolls back and the call raises. *)
set_active_busy(t, u, p) ==
    /\ txn.session[t].pc = "idle"
    /\ ~WriteLockFree
    /\ last' = Call("set_active_system_prompt", p, u, "raise")
    /\ UNCHANGED <<system_prompts, txn>>
    /\ UNCHANGED notPrompts

----------------------------------------------------------------------------
(* Agent *)

default_system_prompt == "...."

(* A call returns a value or raises. *)
Return(v) == [raised |-> FALSE, value |-> v]
Raise(e) == [raised |-> TRUE, value |-> <<e>>]

(* The fixed reply strings of AIAgent, each one character of a text here *)
ReplyNoResponse == <<"SORRY_CANNOT_GENERATE_REPLY">>
ReplyModelUnavailable == <<"SORRY_MODEL_UNAVAILABLE">>
ReplyServiceUnavailable == <<"SORRY_SERVICE_UNAVAILABLE">>
ReplyChatError == <<"SORRY_ERROR_HANDLING_MESSAGE">>
FallbackReplies ==
    {ReplyNoResponse, ReplyModelUnavailable, ReplyServiceUnavailable, ReplyChatError}

(* What requests.post to the LLM adapter can do: answer with a status and a
   JSON body that may hold a "response" field, or raise. *)
LlmText == <<"o", "k">>
HttpAnswer(status, response) ==
    [raised |-> FALSE, status_code |-> status, response |-> response, error |-> ""]
HttpRaises(e) ==
    [raised |-> TRUE, status_code |-> 0, response |-> None, error |-> e]
LlmOutcomes ==
    {HttpAnswer(200, Some(LlmText)), HttpAnswer(200, None), HttpAnswer(500, None),
     HttpRaises("ConnectionError"), HttpRaises("Timeout")}

(* a context that resolves the prompt again when the message arrives *)
build_context_resolving(active_system_prompt, message) ==
    [user_prompt |-> message,
     system_prompt |-> IF IsSome(get_active_system_prompt(agent.user_id))
                       THEN TheValue(get_active_system_prompt(agent.user_id)).content
                       ELSE default_system_prompt]

build_context(active_system_prompt, message) ==
    [user_prompt |-> message,
     system_prompt |-> IF IsSome(active_system_prompt)
                       THEN TheValue(active_system_prompt).content
                       ELSE default_system_prompt]

generate_response(context, post) ==
    IF post.raised THEN Return(ReplyServiceUnavailable)
    ELSE IF post.status_code = 200
         THEN IF IsSome(post.response)
              THEN Return(TheValue(post.response))
              ELSE Return(ReplyNoResponse)
         ELSE Return(ReplyModelUnavailable)

chat_unguarded(active_system_prompt, message, post, build_raises) ==
    IF build_raises THEN Raise("Exception")
    ELSE generate_response(build_context(active_system_prompt, message), post)

(* chat: build the context, generate; any exception becomes ReplyChatError.
   build_raises: the context could not be built. *)
chat(active_system_prompt, message, post, build_raises) ==
    IF build_raises THEN Return(ReplyChatError)
    ELSE LET response == generate_response(
                             build_context(active_system_prompt, message), post)
         IN  IF response.raised THEN Return(ReplyChatError) ELSE response

NoAgent ==
    [pc |-> "none", user_id |-> 0, active_system_prompt |-> None,
     context |-> None, post |-> None, result |-> None]

notAgent == <<conversations, messages, system_prompts, now, last, req, txn, tts, uow>>

(* AIAgent.__init__ *)
AgentInit(u) ==
    /\ agent.pc = "none"
    /\ agent' = [NoAgent EXCEPT !.pc = "ready", !.user_id = u,
                                !.active_system_prompt = get_active_system_prompt(u)]
    /\ UNCHANGED notAgent

(* AIAgent.chat(message) on the instance *)
AgentChat(message, post, build_raises) ==
    /\ agent.pc \in {"ready", "replied"}
    /\ agent' = [agent EXCEPT
           !.pc = "replied",
           !.context = IF build_raises THEN None
                       ELSE Some(build_context(agent.active_system_prompt, message)),
           !.post = Some(post),
           !.result = Some(chat(agent.active_system_prompt, message, post,
                                build_raises))]
    /\ UNCHANGED notAgent

(* The request that held the instance ends. *)
AgentDrop ==
    /\ agent.pc # "none"
    /\ agent' = NoAgent
    /\ UNCHANGED notAgent

(* Other requests change the prompts while the instance lives: the committed
   effect of a create, an update, a set_active or a delete. *)
onlyPrompts == <<conversations, messages, now, last, req, txn, agent, tts, uow>>

ClientCreatesPrompt(u, content) ==
    /\ CanInsertPrompt
    /\ system_prompts' = PromptCreated(u, content)
    /\ UNCHANGED onlyPrompts

ClientUpdatesPrompt(u, content) ==
    /\ system_prompts' = SetFirst(u, "content", content)
    /\ system_prompts' # system_prompts
    /\ UNCHANGED onlyPrompts

ClientSetsActive(u, p) ==
    /\ system_prompts' = SetActiveCommitted(u, p)
    /\ system_prompts' # system_prompts
    /\ UNCHANGED onlyPrompts

ClientDeletesPrompt(u, p) ==
    /\ system_prompts' = PromptDeleted(u, p)
    /\ system_prompts' # system_prompts
    /\ UNCHANGED onlyPrompts

----------------------------------------------------------------------------
(* The /send pipeline: send_message of api/chat_api.py, one step per call
   it awaits. *)

Reqs == {1}
(* the worker processes of the server, each serving one request at a time *)
Workers == {1, 2}
SendTexts == {Hi}
ErrorMessage == <<"SORRY_ERROR_PROCESSING">>

IdleReq ==
    [pc |-> "idle", user_id |-> 0, message |-> <<>>, conversation_id_arg |-> None,
     conversation_id |-> 0, active_system_prompt |-> None, user_message |-> None,
     title |-> None, ai_response |-> <<>>, assistant_message |-> None,
     response |-> None, inserted |-> <<0, 0>>]

(* ChatResponse, with the HTTP status it is sent under *)
ChatResponse(status, success, message, c, m) ==
    [status |-> status, success |-> success, message |-> message,
     conversation_id |-> c, message_id |-> m]
ErrorResponse == ChatResponse(200, FALSE, ErrorMessage, None, None)
NotFoundResponse == ChatResponse(404, FALSE, <<>>, None, None)

(* "if not request.conversation_id": no id, and the id 0, create a conversation. *)
HasConversationId(r) ==
    IsSome(req[r].conversation_id_arg) /\ TheValue(req[r].conversation_id_arg) # 0

notSend == <<system_prompts, now, last, txn, agent, tts, uow>>

SendStart(r, u, text, cid) ==
    /\ req[r].pc = "idle"
    /\ req' = [req EXCEPT ![r] = [IdleReq EXCEPT !.pc = "resolve", !.user_id = u,
                                     !.message = text, !.conversation_id_arg = cid]]
    /\ UNCHANGED <<conversations, messages>>
    /\ UNCHANGED notSend

(* a boundary that undoes the request's writes before it answers *)
SendStoreFailsCompensating(r) ==
    /\ req[r].pc \in {"resolve", "agent", "save_user", "save_assistant"}
    /\ req' = [req EXCEPT ![r].pc = "done", ![r].response = Some(ErrorResponse)]
    /\ IF req[r].inserted[1] = 1
       THEN /\ conversations' =
                  {c \in conversations : c.id # req[r].conversation_id}
            /\ messages' =
                  {m \in messages : m.conversation_id # req[r].conversation_id}
       ELSE UNCHANGED <<conversations, messages>>
    /\ UNCHANGED notSend

(* A store call of the request raises (the storage engine fails): the
   boundary answers success=false. *)
SendStoreFails(r) ==
    /\ req[r].pc \in {"resolve", "agent", "save_user", "save_assistant"}
    /\ req' = [req EXCEPT ![r].pc = "done", ![r].response = Some(ErrorResponse)]
    /\ UNCHANGED <<conversations, messages>>
    /\ UNCHANGED notSend

(* create_conversation, or get_conversation and the 404 *)
SendResolve(r) ==
    /\ req[r].pc = "resolve"
    /\ IF ~HasConversationId(r)
       THEN /\ CanInsertConversation
            /\ conversations' = conversations \cup {NewConversation(req[r].user_id)}
            /\ req' = [req EXCEPT ![r].pc = "agent",
                          ![r].conversation_id = NextId(conversations),
                          ![r].inserted[1] = @ + 1]
       ELSE /\ UNCHANGED conversations
            /\ IF get_conversation(TheValue(req[r].conversation_id_arg),
                                   req[r].user_id) = None
               THEN req' = [req EXCEPT ![r].pc = "done",
                                       ![r].response = Some(NotFoundResponse)]
               ELSE req' = [req EXCEPT ![r].pc = "agent",
                               ![r].conversation_id =
                                   TheValue(req[r].conversation_id_arg)]
    /\ UNCHANGED messages
    /\ UNCHANGED notSend

(* agent = AIAgent(user_id) *)
SendAgent(r) ==
    /\ req[r].pc = "agent"
    /\ req' = [req EXCEPT ![r].pc = "save_user",
                  ![r].active_system_prompt =
                      get_active_system_prompt(req[r].user_id)]
    /\ UNCHANGED <<conversations, messages>>
    /\ UNCHANGED notSend

(* what a successful add_message of the request stores and returns *)
SendAddMessageStored(r, role, content, ok_pc) ==
    /\ messages' = messages \cup
           {NewMessage(req[r].conversation_id, role, content)}
    /\ conversations' = StampConversation(req[r].conversation_id)
    /\ req' = IF role = "user"
              THEN [req EXCEPT ![r].pc = ok_pc,
                       ![r].user_message =
                           Some(NewMessage(req[r].conversation_id, role, content)),
                       ![r].inserted[2] = @ + 1]
              ELSE [req EXCEPT ![r].pc = ok_pc,
                       ![r].assistant_message =
                           Some(NewMessage(req[r].conversation_id, role, content)),
                       ![r].inserted[2] = @ + 1,
                       ![r].response = Some(ChatResponse(200, TRUE, content,
                           Some(req[r].conversation_id),
                           Some(NextId(messages))))]

(* add_message inside the request: the ValueError reaches the boundary. *)
SendAddMessage(r, role, content, ok_pc) ==
    IF QueryConversation(req[r].conversation_id, req[r].user_id) = {}
    THEN /\ req' = [req EXCEPT ![r].pc = "done", ![r].response = Some(ErrorResponse)]
         /\ UNCHANGED <<conversations, messages>>
    ELSE /\ CanInsertMessage
         /\ SendAddMessageStored(r, role, content, ok_pc)

(* the same call where the table has room for the messages of two
   requests *)
PairAddMessage(r, role, content, ok_pc) ==
    IF QueryConversation(req[r].conversation_id, req[r].user_id) = {}
    THEN /\ req' = [req EXCEPT ![r].pc = "done", ![r].response = Some(ErrorResponse)]
         /\ UNCHANGED <<conversations, messages>>
    ELSE SendAddMessageStored(r, role, content, ok_pc)

PairSaveUser(r) ==
    /\ req[r].pc = "save_user"
    /\ PairAddMessage(r, "user", req[r].message,
                      IF HasConversationId(r) THEN "chat" ELSE "title")
    /\ UNCHANGED notSend

PairSaveAssistant(r) ==
    /\ req[r].pc = "save_assistant"
    /\ PairAddMessage(r, "assistant", req[r].ai_response, "done")
    /\ UNCHANGED notSend

SendSaveUser(r) ==
    /\ req[r].pc = "save_user"
    /\ SendAddMessage(r, "user", req[r].message,
                      IF HasConversationId(r) THEN "chat" ELSE "title")
    /\ UNCHANGED notSend

(* a title step outside the try block: the exception of update_conversation
   reaches the boundary *)
SendTitleUnguarded(r) ==
    /\ req[r].pc = "title"
    /\ req' = [req EXCEPT ![r].pc = "done", ![r].response = Some(ErrorResponse)]
    /\ UNCHANGED <<conversations, messages>>
    /\ UNCHANGED notSend

(* The title of a new conversation: derived, handed to update_conversation,
   which stores nothing and raises; the request logs that and goes on. *)
SendTitle(r) ==
    /\ req[r].pc = "title"
    /\ LET conversation == get_conversation(req[r].conversation_id, req[r].user_id)
       IN  req' = [req EXCEPT ![r].pc = "chat",
                      ![r].title =
                          IF IsSome(conversation) /\ TheValue(conversation).title = None
                          THEN Some(generate_conversation_title(req[r].message))
                          ELSE None]
    /\ UNCHANGED <<conversations, messages>>
    /\ UNCHANGED notSend

(* ai_response = agent.chat(request.message) *)
SendChat(r, post) ==
    /\ req[r].pc = "chat"
    /\ req' = [req EXCEPT ![r].pc = "save_assistant",
                  ![r].ai_response =
                      chat(req[r].active_system_prompt, req[r].message, post,
                           FALSE).value]
    /\ UNCHANGED <<conversations, messages>>
    /\ UNCHANGED notSend

SendSaveAssistant(r) ==
    /\ req[r].pc = "save_assistant"
    /\ SendAddMessage(r, "assistant", req[r].ai_response, "done")
    /\ UNCHANGED notSend

(* The response has been sent; the slot serves the next request. *)
SendFinish(r) ==
    /\ req[r].pc = "done"
    /\ req' = [req EXCEPT ![r] = IdleReq]
    /\ UNCHANGED <<conversations, messages>>
    /\ UNCHANGED notSend

(* Another client deletes a conversation while requests are in flight. *)
ClientDeletes(c, u) ==
    /\ get_conversation(c, u) # None
    /\ messages' = messages \ DeletedMessages(c)
    /\ conversations' = conversations \ QueryConversation(c, u)
    /\ UNCHANGED <<req, now>>
    /\ UNCHANGED <<system_prompts, last, txn, agent, tts, uow>>

----------------------------------------------------------------------------
(* ChatService.export_conversation *)

MaxExportMessages == 52
TicksPerSecond == 2
ExportMessageLimit == 1000

Quoted == <<"\"", "a", "\\">>

(* datetime.isoformat: the seconds, and the fraction only when it is not 0;
   a timestamp is a number of clock ticks. *)
isoformat_seconds(t) == <<t \div TicksPerSecond>>

isoformat(t) ==
    IF t % TicksPerSecond = 0 THEN <<t \div TicksPerSecond>>
    ELSE <<t \div TicksPerSecond, t % TicksPerSecond>>

fromisoformat(s) ==
    IF Len(s) = 1 THEN s[1] * TicksPerSecond
    ELSE s[1] * TicksPerSecond + s[2]

(* strftime('%Y-%m-%d %H:%M:%S'): the seconds only *)
strftime(t) == <<t \div TicksPerSecond>>

(* json.dumps of a string escapes the quote and the backslash;
   json.loads undoes it. *)
RECURSIVE JsonEscape(_)
JsonEscape(s) ==
    IF s = <<>> THEN <<>>
    ELSE (IF Head(s) \in {"\"", "\\"} THEN <<"\\", Head(s)>> ELSE <<Head(s)>>)
            \o JsonEscape(Tail(s))

RECURSIVE JsonUnescape(_)
JsonUnescape(s) ==
    IF s = <<>> THEN <<>>
    ELSE IF Head(s) = "\\" THEN <<s[2]>> \o JsonUnescape(Tail(Tail(s)))
         ELSE <<Head(s)>> \o JsonUnescape(Tail(s))

JsonOptional(o) == IF o = None THEN None ELSE Some(JsonEscape(TheValue(o)))
JsonOptionalParsed(o) == IF o = None THEN None ELSE Some(JsonUnescape(TheValue(o)))

ExportData(conversation, msgs) ==
    [conversation |-> [id |-> conversation.id,
                       title |-> conversation.title,
                       updated_at |-> isoformat(conversation.updated_at)],
     messages |-> [i \in 1..Len(msgs) |->
                     [role |-> msgs[i].role,
                      content |-> msgs[i].content,
                      created_at |-> isoformat(msgs[i].created_at),
                      metadata |-> None]]]

json_dumps(data) ==
    [conversation |-> [id |-> data.conversation.id,
                       title |-> JsonOptional(data.conversation.title),
                       updated_at |-> data.conversation.updated_at],
     messages |-> [i \in 1..Len(data.messages) |->
                     [role |-> data.messages[i].role,
                      content |-> JsonEscape(data.messages[i].content),
                      created_at |-> data.messages[i].created_at,
                      metadata |-> None]]]

json_loads(text) ==
    [conversation |-> [id |-> text.conversation.id,
                       title |-> JsonOptionalParsed(text.conversation.title),
                       updated_at |-> text.conversation.updated_at],
     messages |-> [i \in 1..Len(text.messages) |->
                     [role |-> text.messages[i].role,
                      content |-> JsonUnescape(text.messages[i].content),
                      created_at |-> text.messages[i].created_at,
                      metadata |-> None]]]

ExportLines(conversation, msgs) ==
    [title |-> conversation.title,
     updated_at |-> strftime(conversation.updated_at),
     messages |-> [i \in 1..Len(msgs) |->
                     <<strftime(msgs[i].created_at), msgs[i].role, msgs[i].content>>]]

ExportFormats == {"json", "txt", "xml"}

Exported(format, error, body) ==
    [format |-> format, error |-> error, body |-> body]

export_conversation_returns(c, u, format) ==
    IF get_conversation(c, u) = None
    THEN Exported(format, Some("ValueError"), None)
    ELSE LET conversation == TheValue(get_conversation(c, u))
             msgs == get_messages(c, u, ExportMessageLimit, 0)
         IN  IF format = "json"
             THEN Exported(format, None, Some(json_dumps(ExportData(conversation, msgs))))
             ELSE IF format = "txt"
                  THEN Exported(format, None, Some(ExportLines(conversation, msgs)))
                  ELSE Exported(format, Some("ValueError"), None)

export_conversation(c, u, format) ==
    /\ last' = Call("export_conversation", c, u,
                    export_conversation_returns(c, u, format))
    /\ UNCHANGED <<conversations, messages, now>>
    /\ UNCHANGED notStore

(* A conversation of user 1 after n add_message calls, user and assistant
   in turn, made either one per clock tick or two per clock tick. *)
ExportContent(i) ==
    IF i % 3 = 0 THEN Quoted ELSE IF i % 2 = 1 THEN Hi ELSE LlmText

ExportMessage(i, per_tick) ==
    [id |-> i, conversation_id |-> 1,
     role |-> IF i % 2 = 1 THEN "user" ELSE "assistant",
     content |-> ExportContent(i),
     created_at |-> (i + per_tick - 1) \div per_tick]

----------------------------------------------------------------------------
(* api/tts_api.py: the emotion of a text and the clip that goes with it.
   A character is written as its pinyin. *)

Labels == {"pingdan", "guanqie", "kaixin", "fennu", "beishang", "yiwen",
           "jingya", "yanwu"}

ClassifierErrors == {"FileNotFoundError", "RuntimeError"}

emotion_keywords ==
    << [emotion |-> "kaixin",
        keywords |-> {<<"kai", "xin">>, <<"gao", "xing">>, <<"kuai", "le">>,
                      <<"xing", "fen">>, <<"yu", "kuai">>, <<"emoji_smile">>,
                      <<"emoji_grin">>, <<"emoji_smiley">>}],
       [emotion |-> "beishang",
        keywords |-> {<<"bei", "shang">>, <<"nan", "guo">>, <<"shang", "xin">>,
                      <<"tong", "ku">>, <<"shi", "luo">>, <<"emoji_cry">>,
                      <<"emoji_sob">>, <<"emoji_pensive">>}],
       [emotion |-> "yiwen",
        keywords |-> {<<"shen", "me">>, <<"zen", "me">>, <<"wei", "shen", "me">>,
                      <<"ru", "he">>, <<"?">>, <<"fullwidth_?">>, <<"ma">>,
                      <<"ne">>}],
       [emotion |-> "jingya",
        keywords |-> {<<"jing", "ya">>, <<"chi", "jing">>, <<"zhen", "jing">>,
                      <<"yi", "wai">>, <<"emoji_open_mouth">>,
                      <<"emoji_astonished">>, <<"wa">>}],
       [emotion |-> "guanqie",
        keywords |-> {<<"guan", "xin">>, <<"dan", "xin">>, <<"guan", "ai">>,
                      <<"zhao", "gu">>, <<"zhu", "yi">>, <<"xiao", "xin">>}] >>

Contains(s, k) ==
    \E i \in 0..(Len(s) - Len(k)) : SubSeq(s, i + 1, i + Len(k)) = k

LowerChar(ch) ==
    CASE ch = "O" -> "o"
      [] ch = "K" -> "k"
      [] OTHER -> ch

lower(s) == [i \in 1..Len(s) |-> LowerChar(s[i])]

Min(S) == CHOOSE x \in S : \A y \in S : x <= y

(* the function bound to predict_emotion when the import failed *)
predict_emotion_keywords(text) ==
    LET hits == {i \in 1..Len(emotion_keywords) :
                    \E k \in emotion_keywords[i].keywords : Contains(lower(text), k)}
    IN  IF hits = {} THEN "pingdan" ELSE emotion_keywords[Min(hits)].emotion

emotion_audio_map_wired(emotion_text) ==
    CASE emotion_text = "guanqie" -> Some("examples/care.wav")
      [] emotion_text = "kaixin" -> Some("examples/happy.wav")
      [] emotion_text = "fennu" -> Some("examples/2.wav")
      [] emotion_text = "beishang" -> Some("examples/sad.wav")
      [] emotion_text = "yiwen" -> Some("examples/question.wav")
      [] emotion_text = "jingya" -> Some("examples/surprise.wav")
      [] emotion_text = "yanwu" -> Some("examples/emo_hate.wav")
      [] OTHER -> None

emotion_audio_map(emotion_text) ==
    CASE emotion_text = "guanqie" -> Some("examples/care.wav")
      [] emotion_text = "kaixin" -> Some("examples/happy.wav")
      [] emotion_text = "beishang" -> Some("examples/sad.wav")
      [] emotion_text = "yiwen" -> Some("examples/question.wav")
      [] emotion_text = "jingya" -> Some("examples/surprise.wav")
      [] OTHER -> None

(* import_ok: the classifier module was imported; outcome: what a call of
   the classifier does, a label or an exception; config_raises: load_config
   fails. *)
get_emotion_audio(import_ok, text, outcome, config_raises) ==
    LET predicted == IF import_ok THEN outcome ELSE predict_emotion_keywords(text)
    IN  IF predicted \in ClassifierErrors \/ config_raises
        THEN <<"pingdan", None>>
        ELSE <<predicted, emotion_audio_map(predicted)>>

TtsTexts ==
    { <<"ni", "hao">>,
      <<"wo", "hen", "kai", "xin">>,
      <<"wo", "hen", "nan", "guo">>,
      <<"ni", "hao", "ma">>,
      <<"O", "K", "?">>,
      <<"wa">>,
      <<"xiao", "xin">>,
      <<"kai", "xin", "ma">>,
      <<"bie", "dan", "xin", "emoji_cry">>,
      <<"wo", "hen", "sheng", "qi">> }

UnloadedTts ==
    [pc |-> "unloaded", import_ok |-> FALSE, text |-> <<>>, outcome |-> "",
     config_raises |-> FALSE, emotion_text |-> "", emo_audio_prompt |-> None,
     audio_prompt_arg |-> None, emo_audio_prompt_arg |-> None,
     output_path_arg |-> None, post |-> None, request |-> None,
     response |-> None]

notTts == <<conversations, messages, system_prompts, now, last, req, txn, agent,
           uow>>

(* the try/except around the import of the classifier module *)
TtsImport(import_ok) ==
    /\ tts.pc = "unloaded"
    /\ tts' = [tts EXCEPT !.pc = "idle", !.import_ok = import_ok]
    /\ UNCHANGED notTts

TtsGetEmotionAudio(text, outcome, config_raises) ==
    /\ tts.pc # "unloaded"
    /\ ~tts.import_ok => outcome = "RuntimeError"
    /\ LET result == get_emotion_audio(tts.import_ok, text, outcome, config_raises)
       IN  tts' = [tts EXCEPT !.pc = "classified", !.text = text,
                              !.outcome = IF tts.import_ok THEN outcome ELSE "",
                              !.config_raises = config_raises,
                              !.emotion_text = result[1],
                              !.emo_audio_prompt = result[2]]
    /\ UNCHANGED notTts

(* call_indextts and the /synthesize handler.  A file path is the sequence
   of its segments. *)

default_audio_prompt == "examples/natural.wav"
CallerAudio == "caller/speaker.wav"
CallerEmotionAudio == "caller/emotion.wav"
CallerOutputPath == <<"caller", "out.wav">>
TimestampedOutputPath == <<"outputs", "timestamp.wav">>

ErrTtsCallFailed == "TTS_API_CALL_FAILED"
ErrUnknown == "UNKNOWN_ERROR"
ErrSynthesisFailed == "TTS_SYNTHESIS_FAILED"
MsgSynthesisDone == "TTS_SYNTHESIS_DONE"

(* What response.json() gives: a dict with optional keys, or a value that
   is no dict. *)
JsonDict(success, output_path, error) ==
    [dict |-> TRUE, success |-> success, output_path |-> output_path,
     error |-> error]
JsonList == [dict |-> FALSE, success |-> None, output_path |-> None, error |-> None]

TtsAnswer(status, json) == [raised |-> FALSE, status_code |-> status, json |-> json]
TtsRaises == [raised |-> TRUE, status_code |-> 0, json |-> None]

TtsOutcomes ==
    { TtsRaises,
      TtsAnswer(500, Some(JsonDict(Some(FALSE), None, Some("ENGINE_ERROR")))),
      TtsAnswer(200, None),
      TtsAnswer(200, Some(JsonList)),
      TtsAnswer(200, Some(JsonDict(Some(TRUE), Some(<<"outputs", "a.wav">>), None))),
      TtsAnswer(200, Some(JsonDict(Some(TRUE), None, None))),
      TtsAnswer(200, Some(JsonDict(Some(FALSE), None, Some("ENGINE_ERROR")))),
      TtsAnswer(200, Some(JsonDict(Some(FALSE), None, None))),
      TtsAnswer(200, Some(JsonDict(None, None, None))) }

basename(path) == IF path = <<>> THEN <<>> ELSE <<path[Len(path)]>>

CallFailed(e) == JsonDict(Some(FALSE), None, Some(e))

RequestData(text, audio_prompt, emo_audio_prompt, output_path) ==
    [text |-> text, audio_prompt |-> audio_prompt,
     emo_audio_prompt |-> emo_audio_prompt, output_path |-> output_path]

(* the emotion reference of the request: the caller's emo_audio_prompt is
   overwritten by the result of get_emotion_audio *)
RequestEmotionAudio(emo_audio_prompt_arg, selected) == selected

(* call_indextts: the request sent, if one is sent, and the value returned *)
call_indextts(import_ok, text, audio_prompt, emo_audio_prompt, output_path, outcome, config_raises, post) ==
    IF audio_prompt = None /\ config_raises
    THEN [request |-> None, result |-> CallFailed(ErrUnknown)]
    ELSE LET speaker == IF audio_prompt = None THEN default_audio_prompt
                        ELSE TheValue(audio_prompt)
             selected == get_emotion_audio(import_ok, text, outcome, config_raises)
             path == IF output_path = None THEN TimestampedOutputPath
                     ELSE TheValue(output_path)
             request_data ==
                 RequestData(text, speaker,
                             RequestEmotionAudio(emo_audio_prompt, selected[2]), path)
         IN  [request |-> Some(request_data),
              result |->
                 IF post.raised \/ post.status_code >= 400 \/ post.json = None
                 THEN CallFailed(ErrTtsCallFailed)
                 ELSE TheValue(post.json)]

SynthesisResult(success, audio_url, output_path, message, error) ==
    [raised |-> FALSE, success |-> success, audio_url |-> audio_url,
     output_path |-> output_path, message |-> message, error |-> error]

SynthesisRaises ==
    [raised |-> TRUE, success |-> FALSE, audio_url |-> None,
     output_path |-> None, message |-> None, error |-> None]

SynthesisFailed(e) == SynthesisResult(FALSE, None, None, None, Some(e))

(* result.get on a value that is no dict raises AttributeError *)
synthesize_unguarded(result) ==
    IF ~result.dict THEN SynthesisRaises
    ELSE IF result.success = Some(TRUE)
         THEN LET filename == IF result.output_path = None THEN <<>>
                              ELSE basename(TheValue(result.output_path))
              IN  SynthesisResult(TRUE,
                                  Some(<<"api", "tts", "download">> \o filename),
                                  Some(filename), Some(MsgSynthesisDone), None)
         ELSE SynthesisFailed(IF result.error = None THEN ErrSynthesisFailed
                              ELSE TheValue(result.error))

(* synthesize_with_emotion, given what call_indextts returned *)
synthesize_with_emotion(result) ==
    IF synthesize_unguarded(result).raised THEN SynthesisFailed(ErrTtsCallFailed)
    ELSE synthesize_unguarded(result)

TtsSynthesize(text, audio_prompt, emo_audio_prompt, output_path, outcome, config_raises, post) ==
    /\ tts.pc = "idle"
    /\ ~tts.import_ok => outcome = "RuntimeError"
    /\ LET call == call_indextts(tts.import_ok, text, audio_prompt,
                                 emo_audio_prompt, output_path, outcome,
                                 config_raises, post)
           selected == get_emotion_audio(tts.import_ok, text, outcome, config_raises)
       IN  tts' = [tts EXCEPT !.pc = "synthesized", !.text = text,
                              !.outcome = IF tts.import_ok THEN outcome ELSE "",
                              !.config_raises = config_raises,
                              !.emotion_text = IF call.request = None THEN ""
                                               ELSE selected[1],
                              !.emo_audio_prompt = IF call.request = None THEN None
                                                   ELSE selected[2],
                              !.audio_prompt_arg = audio_prompt,
                              !.emo_audio_prompt_arg = emo_audio_prompt,
                              !.output_path_arg = output_path,
                              !.post = IF call.request = None THEN None ELSE Some(post),
                              !.request = call.request,
                              !.response = Some(synthesize_with_emotion(call.result))]
    /\ UNCHANGED notTts

(* the response has been handed to the caller *)
TtsReturn ==
    /\ tts.pc = "synthesized"
    /\ tts' = [UnloadedTts EXCEPT !.pc = "idle", !.import_ok = tts.import_ok]
    /\ UNCHANGED notTts

(* Calls of generate_conversation_title and of get_conversation_stats *)

MaxTitleInput == 25

Alphabet ==
    <<"a", "b", "c", "d", "e", "f", "g", "h", "i", "j", "k", "l", "m", "n",
      "o", "p", "q", "r", "s", "t", "u", "v", "w", "x", "y", "z">>

(* a first message: n characters, the third one a space when interior,
   between leading and trailing whitespace *)
TitleInput(n, lead, trail, interior) ==
    lead \o [i \in 1..n |-> IF interior /\ i = 3 /\ n >= 5 THEN " "
                            ELSE Alphabet[((i - 1) % 26) + 1]] \o trail

TitleLeads == {<<>>, <<" ">>, <<"\t", " ">>}
TitleTrails == {<<>>, <<"\n">>}

TitleCall(first_message) ==
    [message |-> first_message, title |-> generate_conversation_title(first_message)]

generate_title(first_message) ==
    /\ last' = Call("generate_conversation_title", 0, 0, TitleCall(first_message))
    /\ UNCHANGED <<conversations, messages, now>>
    /\ UNCHANGED notStore

(* get_conversation_stats: the counts are queried, then session.func, an
   attribute a Session does not have, raises AttributeError. *)
OwnedConversations(u) == {cv \in conversations : cv.user_id = u}

JoinedMessages(u) ==
    {m \in messages : \E cv \in OwnedConversations(u) : cv.id = m.conversation_id}

Stats(raised, total_conversations, total_messages) ==
    [raised |-> raised, total_conversations |-> total_conversations,
     total_messages |-> total_messages]

get_conversation_stats_returns(u) ==
    LET total_conversations == Cardinality(OwnedConversations(u))
        total_messages == Cardinality(JoinedMessages(u))
    IN  Stats(TRUE, 0, 0)

get_conversation_stats(u) ==
    /\ last' = Call("get_conversation_stats", 0, u, get_conversation_stats_returns(u))
    /\ UNCHANGED <<conversations, messages, now>>
    /\ UNCHANGED notStore

(* ChatService calls step by step: the session a call opens, the writes
   of its transaction before they are committed, and what becomes of the
   session when the call returns or raises.
   get_session (context manager): commit or rollback, then close.
   get_db: a new session that the caller has to close. *)

MaxOpenSessions == 1

(* pc: the step the call in flight is at; row: the message it has staged;
   idle_open: sessions left open with no transaction begun;
   pending_open: sessions left open inside a transaction *)
IdleUow ==
    [pc |-> "none", c |-> 0, u |-> 0, row |-> None,
     idle_open |-> 0, pending_open |-> 0]

notUow == <<system_prompts, req, txn, agent, tts>>

LeftOpen == uow.idle_open + uow.pending_open

(* rows of a failed transaction that reach the table: rollback leaves none *)
CommittedOnFailureAutocommit(staged, written) == IF written THEN {staged} ELSE {}

CommittedOnFailure(staged, written) == {}

(* add_message: the session is opened and the conversation queried; the
   ValueError path rolls back and closes the session. *)
add_message_begin(c, u, role) ==
    /\ uow.pc = "none"
    /\ IF QueryConversation(c, u) = {}
       THEN /\ last' = Call("add_message", c, u, "ValueError")
            /\ UNCHANGED uow
       ELSE /\ CanInsertMessage
            /\ uow' = [uow EXCEPT !.pc = "add_message_staged", !.c = c, !.u = u,
                          !.row = Some([conversation_id |-> c, role |-> role,
                                        content |-> Hi, created_at |-> now])]
            /\ UNCHANGED last
    /\ UNCHANGED <<conversations, messages, now>>
    /\ UNCHANGED notUow

(* the UPDATE addresses the row by its primary key; the flush expects it
   to match one row *)
RowCountUnchecked(c) == TRUE

ConversationRowMatched(c) == \E cv \in conversations : cv.id = c

(* session.commit() flushes, the parent table first: the UPDATE of the
   conversation's updated_at, which takes the write lock ... *)
add_message_update ==
    /\ uow.pc = "add_message_staged"
    /\ ConversationRowMatched(uow.c)
    /\ uow' = [uow EXCEPT !.pc = "add_message_updated"]
    /\ UNCHANGED <<conversations, messages, now, last>>
    /\ UNCHANGED notUow

(* ... the INSERT of the message ... *)
add_message_insert ==
    /\ uow.pc = "add_message_updated"
    /\ uow' = [uow EXCEPT !.pc = "add_message_inserted"]
    /\ UNCHANGED <<conversations, messages, now, last>>
    /\ UNCHANGED notUow

(* The row was deleted by another process after add_message had queried
   it: the UPDATE matches no row, the flush raises StaleDataError and the
   session rolls back. *)
add_message_stale ==
    /\ uow.pc = "add_message_staged"
    /\ ~ConversationRowMatched(uow.c)
    /\ last' = Call("add_message", uow.c, uow.u, "StaleDataError")
    /\ uow' = [uow EXCEPT !.pc = "none", !.c = 0, !.u = 0, !.row = None]
    /\ UNCHANGED <<conversations, messages, now>>
    /\ UNCHANGED notUow

(* the session of add_message holds the write lock of the database file *)
AddMessageHoldsLock == uow.pc \in {"add_message_updated", "add_message_inserted"}

(* delete_conversation in another process, as its committed transaction:
   it waits while the write lock is held. *)
RaceDeletes(c, u) ==
    /\ ~AddMessageHoldsLock
    /\ ClientDeletes(c, u)

StagedMessage ==
    [id |-> NextId(messages),
     conversation_id |-> TheValue(uow.row).conversation_id,
     role |-> TheValue(uow.row).role,
     content |-> TheValue(uow.row).content,
     created_at |-> TheValue(uow.row).created_at]

StampedAt(c, t) ==
    {IF cv.id = c THEN [cv EXCEPT !.updated_at = t] ELSE cv : cv \in conversations}

(* ... and the COMMIT; a failing session.refresh after it changes the
   result of the call and nothing stored.  The session is closed. *)
add_message_commit(refresh_fails) ==
    /\ uow.pc = "add_message_inserted"
    /\ messages' = messages \cup {StagedMessage}
    /\ conversations' = StampedAt(uow.c, TheValue(uow.row).created_at)
    /\ last' = Call("add_message", uow.c, uow.u,
                    IF refresh_fails THEN "raise" ELSE "ok")
    /\ uow' = [uow EXCEPT !.pc = "none", !.c = 0, !.u = 0, !.row = None]
    /\ UNCHANGED now
    /\ UNCHANGED notUow

(* An exception at any point before the COMMIT: session.rollback() in the
   except branch and again in the context manager, then close. *)
FailedAt(pc) ==
    CASE pc = "add_message_staged" -> "raise before UPDATE"
      [] pc = "add_message_updated" -> "raise after UPDATE"
      [] OTHER -> "raise after INSERT"

add_message_fails ==
    /\ uow.pc \in {"add_message_staged", "add_message_inserted", "add_message_updated"}
    /\ messages' = messages \cup
          CommittedOnFailure(StagedMessage, uow.pc = "add_message_inserted")
    /\ last' = Call("add_message", uow.c, uow.u, FailedAt(uow.pc))
    /\ uow' = [uow EXCEPT !.pc = "none", !.c = 0, !.u = 0, !.row = None]
    /\ UNCHANGED <<conversations, now>>
    /\ UNCHANGED notUow

(* delete_conversation: db = get_db(); when the conversation does not
   resolve the call returns False and db stays open. *)
delete_conversation_begin(c, u) ==
    /\ uow.pc = "none"
    /\ LeftOpen < MaxOpenSessions
    /\ IF get_conversation(c, u) = None
       THEN /\ last' = Call("delete_conversation", c, u, "false")
            /\ uow' = [uow EXCEPT !.idle_open = @ + 1]
       ELSE /\ uow' = [uow EXCEPT !.pc = "delete_found", !.c = c, !.u = u]
            /\ UNCHANGED last
    /\ UNCHANGED <<conversations, messages, now>>
    /\ UNCHANGED notUow

(* the bulk DELETE of the messages, inside the transaction of db *)
delete_conversation_bulk ==
    /\ uow.pc = "delete_found"
    /\ uow' = [uow EXCEPT !.pc = "delete_bulk_done"]
    /\ UNCHANGED <<conversations, messages, now, last>>
    /\ UNCHANGED notUow

(* db.delete(conversation); db.commit(): db stays open, outside a
   transaction. *)
delete_conversation_commit ==
    /\ uow.pc = "delete_bulk_done"
    /\ messages' = messages \ DeletedMessages(uow.c)
    /\ conversations' = conversations \ QueryConversation(uow.c, uow.u)
    /\ last' = Call("delete_conversation", uow.c, uow.u, "true")
    /\ uow' = [uow EXCEPT !.pc = "none", !.c = 0, !.u = 0, !.idle_open = @ + 1]
    /\ UNCHANGED now
    /\ UNCHANGED notUow

(* An exception before the commit is logged and raised again: there is no
   rollback, db stays open, inside its transaction once the DELETE ran. *)
delete_conversation_fails ==
    /\ uow.pc \in {"delete_found", "delete_bulk_done"}
    /\ last' = Call("delete_conversation", uow.c, uow.u, "raise")
    /\ uow' = IF uow.pc = "delete_bulk_done"
              THEN [uow EXCEPT !.pc = "none", !.c = 0, !.u = 0, !.pending_open = @ + 1]
              ELSE [uow EXCEPT !.pc = "none", !.c = 0, !.u = 0, !.idle_open = @ + 1]
    /\ UNCHANGED <<conversations, messages, now>>
    /\ UNCHANGED notUow

(* update_conversation: db = get_db(); nothing is written through db, and
   it stays open whether the call returns None or raises. *)
update_conversation_session(c, u) ==
    /\ uow.pc = "none"
    /\ LeftOpen < MaxOpenSessions
    /\ last' = Call("update_conversation", c, u,
                    IF get_conversation(c, u) = None THEN "absent"
                    ELSE "InvalidRequestError")
    /\ uow' = [uow EXCEPT !.idle_open = @ + 1]
    /\ UNCHANGED <<conversations, messages, now>>
    /\ UNCHANGED notUow

(* load_conversation_history: db = get_db(); the query selects the messages
   by conversation_id alone, and begins a transaction that is never ended.
   The call returns the rows, here their ids. *)
load_conversation_history_returns(c, u) == {m.id : m \in MessagesOf(c)}

load_conversation_history(c, u) ==
    /\ uow.pc = "none"
    /\ LeftOpen < MaxOpenSessions
    /\ last' = Call("load_conversation_history", c, u,
                    load_conversation_history_returns(c, u))
    /\ uow' = [uow EXCEPT !.pending_open = @ + 1]
    /\ UNCHANGED <<conversations, messages, now>>
    /\ UNCHANGED notUow

(* The garbage collector finds a session nothing refers to any more: its
   connection goes back to the pool, the transaction rolled back. *)
SessionCollected ==
    /\ LeftOpen > 0
    /\ \/ uow.idle_open > 0 /\ uow' = [uow EXCEPT !.idle_open = @ - 1]
       \/ uow.pending_open > 0 /\ uow' = [uow EXCEPT !.pending_open = @ - 1]
    /\ UNCHANGED <<conversations, messages, now, last>>
    /\ UNCHANGED notUow

Ids(rows) == [i \in 1..Len(rows) |-> rows[i].id]

(* A call of get_messages: what it was asked and the ids of the rows it
   returned. *)
MessageLimits == {1, DefaultMessageLimit}
MessageOffsets == {0, 1}

Window(limit, offset, rows) ==
    [limit |-> limit, offset |-> offset, ids |-> Ids(rows)]

GetMessages(c, u, limit, offset) ==
    /\ last' = Call("get_messages", c, u,
                    Window(limit, offset, get_messages(c, u, limit, offset)))
    /\ UNCHANGED <<conversations, messages, now>>
    /\ UNCHANGED notStore

(* ChatService.list_conversations with its default arguments:
   ORDER BY updated_at DESC over a rowid scan (ties keep rowid order),
   OFFSET offset LIMIT limit. *)
DefaultConversationLimit == 20

ConversationBeforeAscending(a, b) ==
    \/ a.updated_at < b.updated_at
    \/ a.updated_at = b.updated_at /\ a.id < b.id

ConversationBefore(a, b) ==
    \/ a.updated_at > b.updated_at
    \/ a.updated_at = b.updated_at /\ a.id < b.id

RECURSIVE OrderConversations(_)
OrderConversations(S) ==
    IF S = {} THEN <<>>
    ELSE LET cv == CHOOSE x \in S : \A y \in S \ {x} : ConversationBefore(x, y)
         IN  <<cv>> \o OrderConversations(S \ {cv})

list_conversations_returns(rows, u, limit, offset) ==
    Page(OrderConversations({cv \in rows : cv.user_id = u}), limit, offset)

list_conversations(u) ==
    /\ last' = Call("list_conversations", 0, u,
                    Ids(list_conversations_returns(conversations, u,
                                                   DefaultConversationLimit, 0)))
    /\ UNCHANGED <<conversations, messages, now>>
    /\ UNCHANGED notStore

----------------------------------------------------------------------------
Init ==
    /\ conversations = {}
    /\ messages = {}
    /\ system_prompts = {}
    /\ now = 0
    /\ last = Call("none", 0, 0, "none")
    /\ req = [r \in Workers |-> IdleReq]
    /\ txn = [session |-> [t \in Txns |-> IdleSession],
              committed |-> [u \in Users |-> None]]
    /\ agent = NoAgent
    /\ tts = UnloadedTts
    /\ uow = IdleUow

SendArgs == {None, Some(0)} \cup {Some(c) : c \in ConvIds}

Next ==
    \/ Tick
    \/ \E r \in Reqs, u \in Users, t \in SendTexts, c \in SendArgs :
          SendStart(r, u, t, c)
    \/ \E r \in Reqs : SendStoreFails(r)
    \/ \E r \in Reqs : SendResolve(r)
    \/ \E r \in Reqs : SendAgent(r)
    \/ \E r \in Reqs : SendSaveUser(r)
    \/ \E r \in Reqs : SendTitle(r)
    \/ \E r \in Reqs, post \in LlmOutcomes : SendChat(r, post)
    \/ \E r \in Reqs : SendSaveAssistant(r)
    \/ \E r \in Reqs : SendFinish(r)
    \/ \E c \in ConvIds, u \in Users : ClientDeletes(c, u)

Spec == Init /\ [][Next]_vars

StoreRoles == {"assistant"}

StoreNext ==
    \/ Tick
    \/ \E u \in Users : create_conversation(u)
    \/ \E c \in ConvIds, u \in Users, t \in StoreTexts, r \in StoreRoles :
          add_message(c, u, t, r)
    \/ \E c \in ConvIds, u \in Users : update_conversation(c, u, Some(Hi))
    \/ \E c \in ConvIds, u \in Users : delete_conversation(c, u)

SpecStore == Init /\ [][StoreNext]_vars

(* The SystemPromptStore under every call it offers *)
SetActiveSteps ==
    \/ \E t \in Txns, u \in Users, p \in PromptIds : set_active_deactivate(t, u, p)
    \/ \E t \in Txns : set_active_commit(t)
    \/ \E t \in Txns : set_active_rollback(t)
    \/ \E t \in Txns, u \in Users, p \in PromptIds : set_active_busy(t, u, p)

PromptNext ==
    \/ \E u \in Users, content \in PromptTexts : create_system_prompt(u, content)
    \/ \E u \in Users, content \in PromptTexts : update_system_prompt(u, content)
    \/ \E u \in Users : activate_system_prompt(u)
    \/ \E u \in Users : deactivate_system_prompt(u)
    \/ \E u \in Users, p \in PromptIds : delete_system_prompt(u, p)
    \/ SetActiveSteps

SpecPrompt == Init /\ [][PromptNext]_vars

(* Prompts are created; the only calls that touch is_active are
   set_active_system_prompt calls, two of which may be in flight. *)
SetActiveNext ==
    \/ \E u \in Users, content \in PromptTexts : create_system_prompt(u, content)
    \/ SetActiveSteps

SpecSetActive == Init /\ [][SetActiveNext]_vars

(* An Agent instance beside a SystemPromptStore that changes *)
AgentNext ==
    \/ \E u \in Users, content \in PromptTexts : ClientCreatesPrompt(u, content)
    \/ \E u \in Users, content \in PromptTexts : ClientUpdatesPrompt(u, content)
    \/ \E u \in Users, p \in PromptIds : ClientSetsActive(u, p)
    \/ \E u \in Users, p \in PromptIds : ClientDeletesPrompt(u, p)
    \/ \E u \in Users : AgentInit(u)
    \/ \E post \in LlmOutcomes, build_raises \in BOOLEAN :
          AgentChat(Hi, post, build_raises)
    \/ AgentDrop

SpecAgent == Init /\ [][AgentNext]_vars

(* export_conversation over conversations of 0..MaxExportMessages messages *)
InitExport ==
    \E n \in 0..MaxExportMessages, per_tick \in {1, 2} :
        /\ conversations = {[id |-> 1, user_id |-> 1, title |-> None,
                             updated_at |-> (n + per_tick - 1) \div per_tick]}
        /\ messages = {ExportMessage(i, per_tick) : i \in 1..n}
        /\ now = (n + per_tick - 1) \div per_tick
        /\ system_prompts = {}
        /\ last = Call("none", 0, 0, "none")
        /\ req = [r \in Workers |-> IdleReq]
        /\ txn = [session |-> [t \in Txns |-> IdleSession],
                  committed |-> [u \in Users |-> None]]
        /\ agent = NoAgent
        /\ tts = UnloadedTts
    /\ uow = IdleUow
        /\ uow = IdleUow

ExportNext ==
    \E c \in ConvIds, u \in Users, format \in ExportFormats :
        export_conversation(c, u, format)

SpecExport == InitExport /\ [][ExportNext]_vars

(* the emotion selection of the TTS adapter *)
TtsNext ==
    \/ \E import_ok \in BOOLEAN : TtsImport(import_ok)
    \/ \E text \in TtsTexts, outcome \in Labels \cup ClassifierErrors,
          config_raises \in BOOLEAN :
          TtsGetEmotionAudio(text, outcome, config_raises)

SpecTTS == Init /\ [][TtsNext]_vars

(* /synthesize requests *)
SynthTexts ==
    { <<"ni", "hao">>, <<"wo", "hen", "kai", "xin">>, <<"wo", "hen", "sheng", "qi">> }

SynthNext ==
    \/ \E import_ok \in BOOLEAN : TtsImport(import_ok)
    \/ \E text \in SynthTexts,
          audio_prompt \in {None, Some(CallerAudio)},
          emo_audio_prompt \in {None, Some(CallerEmotionAudio)},
          output_path \in {None, Some(CallerOutputPath)},
          outcome \in Labels \cup ClassifierErrors,
          config_raises \in BOOLEAN,
          post \in TtsOutcomes :
          TtsSynthesize(text, audio_prompt, emo_audio_prompt, output_path,
                        outcome, config_raises, post)
    \/ TtsReturn

SpecSynth == Init /\ [][SynthNext]_vars

(* generate_conversation_title over first messages of 0..MaxTitleInput
   characters *)
TitleNext ==
    \E n \in 0..MaxTitleInput, lead \in TitleLeads, trail \in TitleTrails,
       interior \in BOOLEAN :
        generate_title(TitleInput(n, lead, trail, interior))

SpecTitle == Init /\ [][TitleNext]_vars

(* get_conversation_stats beside the calls that change what it counts *)
StatsNext ==
    \/ \E u \in Users : create_conversation(u)
    \/ \E c \in ConvIds, u \in Users, t \in StoreTexts, r \in Roles :
          add_message(c, u, t, r)
    \/ \E c \in ConvIds, u \in Users : delete_conversation(c, u)
    \/ \E u \in Users : get_conversation_stats(u)

SpecStats == Init /\ [][StatsNext]_vars

SessionOwners == {1}
SessionRoles == {"user"}

(* The conversation list of a user while conversations are created,
   appended to and deleted *)
ListRoles == {"user"}

ListNext ==
    \/ Tick
    \/ \E u \in Users : create_conversation(u)
    \/ \E c \in ConvIds, u \in Users, t \in StoreTexts, r \in ListRoles :
          add_message(c, u, t, r)
    \/ \E c \in ConvIds, u \in Users : delete_conversation(c, u)
    \/ \E u \in Users : list_conversations(u)

SpecList == Init /\ [][ListNext]_vars

(* The transcript of a conversation while messages are appended and
   conversations deleted *)
MessagesNext ==
    \/ Tick
    \/ \E u \in SessionOwners : create_conversation(u)
    \/ \E c \in ConvIds, u \in SessionOwners, t \in StoreTexts, r \in ListRoles :
          add_message(c, u, t, r)
    \/ \E c \in ConvIds, u \in SessionOwners : delete_conversation(c, u)
    \/ \E c \in ConvIds, u \in Users, limit \in MessageLimits,
          offset \in MessageOffsets : GetMessages(c, u, limit, offset)

SpecMessages == Init /\ [][MessagesNext]_vars

(* ChatService calls step by step, with failures at every step *)
SessionNext ==
    \/ Tick
    \/ \E u \in SessionOwners : create_conversation(u)
    \/ \E c \in ConvIds, u \in Users, r \in SessionRoles : add_message_begin(c, u, r)
    \/ add_message_update
    \/ add_message_insert
    \/ \E refresh_fails \in BOOLEAN : add_message_commit(refresh_fails)
    \/ add_message_fails
    \/ \E c \in ConvIds, u \in SessionOwners : delete_conversation_begin(c, u)
    \/ delete_conversation_bulk
    \/ delete_conversation_commit
    \/ delete_conversation_fails
    \/ \E c \in ConvIds, u \in SessionOwners : update_conversation_session(c, u)
    \/ \E c \in ConvIds, u \in SessionOwners : load_conversation_history(c, u)
    \/ SessionCollected

SpecSession == Init /\ [][SessionNext]_vars

(* Two worker processes serve one send request each on the conversations
   of one user *)
PairOutcomes == {HttpAnswer(200, Some(LlmText)), HttpAnswer(500, None)}

PairNext ==
    \/ Tick
    \/ \E u \in SessionOwners : create_conversation(u)
    \/ \E r \in Workers, u \in SessionOwners, t \in SendTexts :
          SendStart(r, u, t, Some(1))
    \/ \E r \in Workers : SendStoreFails(r)
    \/ \E r \in Workers : SendResolve(r)
    \/ \E r \in Workers : SendAgent(r)
    \/ \E r \in Workers : PairSaveUser(r)
    \/ \E r \in Workers, post \in PairOutcomes : SendChat(r, post)
    \/ \E r \in Workers : PairSaveAssistant(r)

SpecPair == Init /\ [][PairNext]_vars

(* Reads of one user over the conversations of another *)
IsolationNext ==
    \/ \E u \in SessionOwners : create_conversation(u)
    \/ \E c \in ConvIds, u \in Users, t \in StoreTexts, r \in SessionRoles :
          add_message(c, u, t, r)
    \/ \E c \in ConvIds, u \in Users : delete_conversation(c, u)
    \/ \E c \in ConvIds, u \in Users : load_conversation_history(c, u)
    \/ \E c \in ConvIds, u \in Users, limit \in MessageLimits,
          offset \in MessageOffsets : GetMessages(c, u, limit, offset)
    \/ \E u \in Users : list_conversations(u)
    \/ SessionCollected

SpecIsolation == Init /\ [][IsolationNext]_vars

(* add_message in one process, step by step, while another process deletes
   conversations *)
RaceNext ==
    \/ Tick
    \/ \E u \in SessionOwners : create_conversation(u)
    \/ \E c \in ConvIds, u \in Users, r \in SessionRoles : add_message_begin(c, u, r)
    \/ add_message_update
    \/ add_message_stale
    \/ add_message_insert
    \/ \E refresh_fails \in BOOLEAN : add_message_commit(refresh_fails)
    \/ add_message_fails
    \/ \E c \in ConvIds, u \in SessionOwners : RaceDeletes(c, u)

SpecRace == Init /\ [][RaceNext]_vars

----------------------------------------------------------------------------
(* Properties *)

Owns(u, c) == \E cv \in conversations : cv.id = c /\ cv.user_id = u

Completes(r) ==
    /\ req[r].pc = "save_assistant"
    /\ req'[r].pc = "done"
    /\ TheValue(req'[r].response).success

\* C1: a send request with no conversation id that completes successfully
\* has created exactly one conversation, owned by its user, and exactly two
\* messages in it: the user message with the request's text, then the
\* assistant message whose content is the returned reply, whatever the LLM
\* adapter did.
C1_SendAddsConversationAndTwoMessages ==
    [][\A r \in Reqs :
         (Completes(r) /\ req[r].conversation_id_arg = None) =>
            LET q == req'[r]
                um == TheValue(q.user_message)
                am == TheValue(q.assistant_message)
            IN  /\ q.inserted = <<1, 2>>
                /\ \E cv \in conversations' :
                       cv.id = q.conversation_id /\ cv.user_id = q.user_id
                /\ {m \in messages' : m.conversation_id = q.conversation_id}
                       = {um, am}
                /\ um.role = "user" /\ um.content = q.message
                /\ am.role = "assistant"
                /\ am.content = TheValue(q.response).message
                /\ TheValue(q.response).message_id = Some(am.id)
                /\ MessageBefore(um, am)
      ]_vars

\* C1 witness: a request without conversation id has completed with the
\* fallback reply of a failed adapter call, stored as the assistant message.
C1_Witness ==
    \E r \in Reqs :
        /\ req[r].pc = "done"
        /\ req[r].conversation_id_arg = None
        /\ TheValue(req[r].response).success
        /\ TheValue(req[r].response).message = ReplyServiceUnavailable
        /\ TheValue(req[r].assistant_message) \in messages

\* C2: for a conversation id C and a user U that does not own C (C belongs
\* to another user or does not exist), get_conversation(C, U) is absent,
\* and add_message(C, U, ...) fails with the ownership error, stores no
\* message and leaves every updated_at as it was.
C2_NotOwnedIsIsolated ==
    [][/\ \A c \in ConvIds, u \in Users :
            ~Owns(u, c) => get_conversation(c, u) = None
       /\ (last'.op = "add_message" /\ ~Owns(last'.u, last'.c)) =>
             /\ last'.ret = "ValueError"
             /\ messages' = messages
             /\ conversations' = conversations
      ]_vars

\* C2 witness: add_message was refused on a conversation of another user.
C2_Witness ==
    /\ last.op = "add_message"
    /\ last.ret = "ValueError"
    /\ \E cv \in conversations : cv.id = last.c /\ cv.user_id # last.u

\* C3 (as stated): under interleaved set_active calls at most one prompt of
\* a user is active, and once no call is in flight the active prompt is the
\* target of the last committed successful call.
C3_LastSuccessfulTargetIsActive ==
    \A u \in Users :
        /\ Cardinality(ActivePromptsOf(u)) <= 1
        /\ (WriteLockFree /\ IsSome(txn.committed[u])) =>
              {sp.id : sp \in ActivePromptsOf(u)} = {TheValue(txn.committed[u])}

\* C4 (as stated): after any sequence of SystemPromptStore operations at
\* most one prompt of a user is active.
C4_AtMostOneActive ==
    \A u \in Users : Cardinality(ActivePromptsOf(u)) <= 1

\* C5 (as stated): after a successful send request without conversation id
\* and with text T, the conversation read back has the title derived from T.
C5_TitlePersisted ==
    \A r \in Reqs :
        (/\ req[r].pc = "done"
         /\ req[r].conversation_id_arg = None
         /\ TheValue(req[r].response).success
         /\ IsSome(get_conversation(req[r].conversation_id, req[r].user_id)))
        => TheValue(get_conversation(req[r].conversation_id, req[r].user_id)).title
              = Some(generate_conversation_title(req[r].message))

\* C6: after delete_conversation(C, U) returned true, no message of C is
\* stored, get_messages(C, U) is the empty sequence, get_conversation(C, U)
\* is absent, and a second delete_conversation(C, U) returns false.
C6_DeleteRemovesConversation ==
    (last.op = "delete_conversation" /\ last.ret = "true") =>
        /\ MessagesOf(last.c) = {}
        /\ get_messages(last.c, last.u, DefaultMessageLimit, 0) = <<>>
        /\ get_conversation(last.c, last.u) = None
        /\ delete_conversation_returns(last.c, last.u) = "false"

\* C6 witness: a conversation was deleted while messages of another
\* conversation stay stored.
C6_Witness ==
    /\ last.op = "delete_conversation"
    /\ last.ret = "true"
    /\ messages # {}

Delivered(post) ==
    ~post.raised /\ post.status_code = 200 /\ IsSome(post.response)

\* C8: chat never raises: for every adapter outcome and for a failure while
\* the context is built it returns a reply, which is one of the fixed
\* fallback strings whenever the adapter delivered no response, and the
\* adapter's text when it did.
C8_ChatIsTotal ==
    agent.pc = "replied" =>
        LET result == TheValue(agent.result)
            post == TheValue(agent.post)
        IN  /\ ~result.raised
            /\ (~Delivered(post) \/ agent.context = None) =>
                   result.value \in FallbackReplies
            /\ (Delivered(post) /\ agent.context # None) =>
                   result.value = TheValue(post.response)

\* C8 witness: the adapter raised and chat returned the fallback string.
C8_Witness ==
    /\ agent.pc = "replied"
    /\ TheValue(agent.post).raised
    /\ TheValue(agent.result) = Return(ReplyServiceUnavailable)

LowestId(rows) == CHOOSE r \in rows : \A o \in rows : r.id <= o.id

\* C9 (as stated): the system_prompt of the context is the content of the
\* user's prompt flagged active when there is one, and the default string
\* in every other case.
C9_ActiveOrDefault ==
    [][(agent.pc = "none" /\ agent'.pc = "ready") =>
         build_context(agent'.active_system_prompt, Hi).system_prompt =
            IF ActivePromptsOf(agent'.user_id) # {}
            THEN LowestId(ActivePromptsOf(agent'.user_id)).content
            ELSE default_system_prompt
      ]_vars

\* C9 (amended): the system_prompt of the context is, as resolved when the
\* Agent is constructed, the content of the user's prompt flagged active;
\* when none is flagged active, the content of the user's first prompt; and
\* the default string only when the user owns no prompt.
C9_ActiveOrFirstOrDefault ==
    [][/\ (agent.pc = "none" /\ agent'.pc = "ready") =>
            build_context(agent'.active_system_prompt, Hi).system_prompt =
               IF ActivePromptsOf(agent'.user_id) # {}
               THEN LowestId(ActivePromptsOf(agent'.user_id)).content
               ELSE IF PromptsOf(agent'.user_id) # {}
                    THEN LowestId(PromptsOf(agent'.user_id)).content
                    ELSE default_system_prompt
       /\ (agent'.pc = "replied" /\ agent'.context # None) =>
            TheValue(agent'.context).system_prompt =
               build_context(agent.active_system_prompt, Hi).system_prompt
      ]_vars

\* C9 witness: a context was built from a prompt that is not flagged active.
C9_Witness ==
    /\ agent.pc = "replied"
    /\ agent.context # None
    /\ IsSome(agent.active_system_prompt)
    /\ ~TheValue(agent.active_system_prompt).is_active
    /\ TheValue(agent.context).system_prompt # default_system_prompt

MessageTriples(msgs) ==
    [i \in 1..Len(msgs) |-> <<msgs[i].role, msgs[i].content, msgs[i].created_at>>]

ParsedTriples(text) ==
    LET parsed == json_loads(text).messages
    IN  [i \in 1..Len(parsed) |->
           <<parsed[i].role, parsed[i].content, fromisoformat(parsed[i].created_at)>>]

ExportedJson ==
    /\ last.op = "export_conversation"
    /\ last.ret.format = "json"
    /\ last.ret.error = None

\* C7 (as stated): parsing the json export of a conversation gives the same
\* ordered list of (role, content, creation timestamp) as get_messages with
\* its default arguments, whatever the number of messages.
C7_ExportEqualsGetMessages ==
    ExportedJson =>
        ParsedTriples(TheValue(last.ret.body)) =
            MessageTriples(get_messages(last.c, last.u, DefaultMessageLimit, 0))

\* C7 (amended): parsing the json export of a conversation gives the same
\* ordered list of (role, content, creation timestamp) as get_messages with
\* limit 1000, which is what get_messages returns with its default
\* arguments exactly when the conversation holds at most 50 messages; with
\* more messages the default call returns the first 50 of them only.
C7_ExportEqualsFirstThousand ==
    ExportedJson =>
        LET triples == ParsedTriples(TheValue(last.ret.body))
            default == MessageTriples(get_messages(last.c, last.u, DefaultMessageLimit, 0))
        IN  /\ triples = MessageTriples(get_messages(last.c, last.u, ExportMessageLimit, 0))
            /\ Cardinality(MessagesOf(last.c)) <= DefaultMessageLimit => triples = default
            /\ Cardinality(MessagesOf(last.c)) > DefaultMessageLimit =>
                  /\ Len(triples) = Cardinality(MessagesOf(last.c))
                  /\ default = SubSeq(triples, 1, DefaultMessageLimit)

\* C7 witness: a conversation of exactly 50 messages, with equal timestamps,
\* fractions of a second and characters that json escapes, was exported.
C7_Witness ==
    /\ ExportedJson
    /\ Cardinality(MessagesOf(last.c)) = DefaultMessageLimit
    /\ \E m1, m2 \in MessagesOf(last.c) :
          /\ m1.id # m2.id /\ m1.created_at = m2.created_at
          /\ m1.created_at % TicksPerSecond # 0
          /\ m1.content = Quoted

\* C10 (as stated): when the classifier raises at call time, the emotion is
\* the label the keyword table gives for the text, and the clip is the one
\* mapped to that label.
C10_KeywordLabelOnClassifierFailure ==
    (/\ tts.pc = "classified"
     /\ tts.import_ok
     /\ tts.outcome \in ClassifierErrors
     /\ ~tts.config_raises)
    => /\ tts.emotion_text = predict_emotion_keywords(tts.text)
       /\ tts.emo_audio_prompt = emotion_audio_map(predict_emotion_keywords(tts.text))

\* C11 (as stated): the emotion reference of the request handed to the TTS
\* adapter is the caller's emo_audio_prompt when the caller gave one, and
\* the clip selected from the classified label only when it is unset.
C11_CallerEmotionAudioWins ==
    (tts.pc = "synthesized" /\ tts.request # None) =>
        TheValue(tts.request).emo_audio_prompt =
            IF tts.emo_audio_prompt_arg # None THEN tts.emo_audio_prompt_arg
            ELSE tts.emo_audio_prompt

AdapterReportsSuccess ==
    /\ tts.request # None
    /\ ~TheValue(tts.post).raised
    /\ TheValue(tts.post).status_code < 400
    /\ TheValue(tts.post).json # None
    /\ TheValue(TheValue(tts.post).json).dict
    /\ TheValue(TheValue(tts.post).json).success = Some(TRUE)

\* C12: synthesize never raises; it answers success only when the adapter's
\* own result reports success, and in every other case (no request could be
\* built, network error, HTTP error status, a body that is no JSON dict, a
\* result without success) it answers {success: false, error}.
C12_SynthesizeIsTotal ==
    tts.pc = "synthesized" =>
        LET response == TheValue(tts.response)
        IN  /\ ~response.raised
            /\ response.success <=> AdapterReportsSuccess
            /\ ~response.success => response.error # None
            /\ response.success => response.error = None

\* C12 witness: the adapter answered 200 with a body that is no dict, and
\* the caller got a structured failure.
C12_Witness ==
    /\ tts.pc = "synthesized"
    /\ tts.request # None
    /\ TheValue(tts.post).json = Some(JsonList)
    /\ TheValue(tts.response) = SynthesisFailed(ErrTtsCallFailed)

ConfiguredClips ==
    [guanqie |-> "examples/care.wav", kaixin |-> "examples/happy.wav",
     beishang |-> "examples/sad.wav", yiwen |-> "examples/question.wav",
     jingya |-> "examples/surprise.wav"]

\* C19: for a label the classifier returned, the request carries no emotion
\* clip for neutral, anger and disgust and the configured clip for caring,
\* happy, sad, questioning and surprised; the label is kept, and the request
\* is sent in each case, so the answer depends on the adapter alone.
C19_EmotionToAudio ==
    (/\ tts.pc = "synthesized"
     /\ tts.import_ok
     /\ tts.outcome \in Labels
     /\ ~tts.config_raises)
    => /\ tts.request # None
       /\ tts.emotion_text = tts.outcome
       /\ tts.emo_audio_prompt =
             IF tts.outcome \in {"pingdan", "fennu", "yanwu"} THEN None
             ELSE Some(ConfiguredClips[tts.outcome])
       /\ TheValue(tts.request).emo_audio_prompt = tts.emo_audio_prompt
       /\ TheValue(tts.response).success <=> AdapterReportsSuccess

\* C19 witness: the classifier returned anger and the synthesis succeeded
\* without an emotion clip.
C19_Witness ==
    /\ tts.pc = "synthesized"
    /\ tts.import_ok
    /\ tts.outcome = "fennu"
    /\ tts.request # None
    /\ TheValue(tts.request).emo_audio_prompt = None
    /\ TheValue(tts.response).success

\* C13 (as stated): a send request naming a conversation id that does not
\* resolve for its user is answered not-found at once: no conversation is
\* created, no message is stored, and the request ends before the agent is
\* built or called.
C13_UnresolvedIdChangesNothing ==
    [][\A r \in Reqs :
         (/\ req[r].pc = "resolve"
          /\ req[r].conversation_id_arg # None
          /\ get_conversation(TheValue(req[r].conversation_id_arg),
                              req[r].user_id) = None
          /\ req'[r].pc # "resolve"
          /\ req'[r].response # Some(ErrorResponse))
         => /\ req'[r].pc = "done"
            /\ req'[r].response = Some(NotFoundResponse)
            /\ conversations' = conversations
            /\ messages' = messages
      ]_vars

AllSpace(m) == \A i \in 1..Len(m) : IsSpace(m[i])

(* m without its leading and trailing whitespace, for m not all whitespace *)
Trimmed(m) ==
    LET kept == {i \in 1..Len(m) : ~IsSpace(m[i])}
    IN  SubSeq(m, Min(kept), Max(kept))

TitleCalled == last.op = "generate_conversation_title"

\* C14 (as stated): the title of an empty or whitespace-only m is the
\* placeholder; of an m of at most 20 characters it is m; of a longer m it
\* is the first 20 characters of m followed by "..."; it never exceeds 23
\* characters.
C14_TitleOfMessage ==
    TitleCalled =>
        LET m == last.ret.message
            title == last.ret.title
        IN  /\ AllSpace(m) => title = DefaultTitle
            /\ (~AllSpace(m) /\ Len(m) <= 20) => title = m
            /\ (~AllSpace(m) /\ Len(m) > 20) => title = SubSeq(m, 1, 20) \o Ellipsis
            /\ Len(title) <= 23

\* C14 (amended): with s the message m without leading and trailing
\* whitespace, the title of an empty or whitespace-only m is the
\* placeholder; if s has at most 20 characters the title is s; if s has more
\* than 20 characters the title is the first 20 characters of s followed by
\* "..."; it never exceeds 23 characters.
C14_TitleOfTrimmedMessage ==
    TitleCalled =>
        LET m == last.ret.message
            title == last.ret.title
        IN  /\ AllSpace(m) => title = DefaultTitle
            /\ (~AllSpace(m) /\ Len(Trimmed(m)) <= 20) => title = Trimmed(m)
            /\ (~AllSpace(m) /\ Len(Trimmed(m)) > 20) =>
                  title = SubSeq(Trimmed(m), 1, 20) \o Ellipsis
            /\ Len(title) <= 23

\* C14 witness: a message of more than 20 characters between whitespace,
\* whose title is cut and ends with "...".
C14_Witness ==
    /\ TitleCalled
    /\ ~AllSpace(last.ret.message)
    /\ IsSpace(last.ret.message[1])
    /\ Len(Trimmed(last.ret.message)) = 25
    /\ Len(last.ret.title) = 23
    /\ SubSeq(last.ret.title, 21, 23) = Ellipsis

\* C18 (as stated): get_conversation_stats(U) returns a record whose
\* total_conversations is the number of conversations of U and whose
\* total_messages is the number of messages in them.
C18_StatsCounts ==
    last.op = "get_conversation_stats" =>
        /\ ~last.ret.raised
        /\ last.ret.total_conversations =
              Cardinality({cv \in conversations : cv.user_id = last.u})
        /\ last.ret.total_messages =
              Cardinality({m \in messages :
                  \E cv \in conversations :
                      cv.user_id = last.u /\ cv.id = m.conversation_id})

(* C15: every store operation releases its database session on every exit
   path: whenever no call is in flight, no session is left open and no
   transaction is left pending.  (The statement of the claim; the sessions
   of get_db are never closed by delete_conversation, update_conversation
   and load_conversation_history.) *)
C15_SessionsReleased ==
    uow.pc = "none" => LeftOpen = 0

(* C16: add_message writes the message and the bump of updated_at as one
   unit: a step that adds a message stamps its conversation in the same
   step, and a step that changes the updated_at of a conversation adds a
   message of it; a failure before, between or after the two writes leaves
   neither. *)
C16_AddMessageAtomic ==
    [][ /\ \A m \in messages' \ messages :
              \E cv \in conversations' :
                  cv.id = m.conversation_id /\ cv.updated_at = m.created_at
        /\ \A cv \in conversations : \A cw \in conversations' :
              (cw.id = cv.id /\ cw.updated_at # cv.updated_at)
                  => \E m \in messages' \ messages : m.conversation_id = cv.id
      ]_vars

(* the call failed between the UPDATE and the INSERT, after time had passed
   since the conversation was created: no message, no bump *)
C16_Witness ==
    /\ last.op = "add_message"
    /\ last.ret = "raise after UPDATE"
    /\ uow.pc = "none"
    /\ MessagesOf(last.c) = {}
    /\ \E cv \in conversations :
          cv.id = last.c /\ cv.updated_at < now

SetActiveCommits(t) ==
    /\ txn.session[t].pc = "deactivated"
    /\ txn'.session[t].pc = "idle"
    /\ last'.op = "set_active_system_prompt"
    /\ last'.ret \in {"true", "false"}

(* C17: set_active(U, P) returns true exactly when P exists and is owned by
   U, and then P is the one active prompt of U; no step of set_active
   changes a prompt of another user, and none adds or removes a prompt. *)
C17_SetActiveExactlyOwned ==
    [][ /\ \A t \in Txns : SetActiveCommits(t) =>
              LET u == txn.session[t].user_id
                  p == txn.session[t].target
              IN  /\ (last'.ret = "true") <=>
                         (\E sp \in system_prompts : sp.id = p /\ sp.user_id = u)
                  /\ last'.ret = "true" =>
                         {sp.id : sp \in {a \in system_prompts' :
                                          a.user_id = u /\ a.is_active}} = {p}
                  /\ \A sp \in system_prompts :
                         sp.user_id # u => sp \in system_prompts'
                  /\ {sp.id : sp \in system_prompts'} = {sp.id : sp \in system_prompts}
        /\ (txn' # txn /\ ~(\E t \in Txns : SetActiveCommits(t)))
              => system_prompts' = system_prompts
      ]_vars

(* a call returned true for its user while a prompt of another user is
   active *)
C17_Witness ==
    /\ last.op = "set_active_system_prompt"
    /\ last.ret = "true"
    /\ {sp.id : sp \in ActivePromptsOf(last.u)} = {last.c}
    /\ \E sp \in system_prompts : sp.user_id # last.u /\ sp.is_active

PromptText(resolved) ==
    IF IsSome(resolved) THEN TheValue(resolved).content ELSE default_system_prompt

(* C20: an Agent instance answers with the system prompt resolved when it
   was constructed: construction captures the resolution of that moment, the
   captured prompt never changes while the instance lives, and every context
   the instance builds carries its text, whatever was committed to the
   prompts in between; an instance constructed after a commit captures the
   resolution after it. *)
C20_PromptFixedAtConstruction ==
    [][ /\ (agent.pc = "none" /\ agent'.pc = "ready") =>
              agent'.active_system_prompt = get_active_system_prompt(agent'.user_id)
        /\ (agent.pc # "none" /\ agent'.pc # "none") =>
              agent'.active_system_prompt = agent.active_system_prompt
        /\ (agent'.pc = "replied" /\ agent' # agent /\ IsSome(agent'.context)) =>
              TheValue(agent'.context).system_prompt =
                  PromptText(agent.active_system_prompt)
      ]_vars

(* the instance has answered with a prompt text that is no longer what the
   store resolves for its user *)
C20_Witness ==
    /\ agent.pc = "replied"
    /\ IsSome(agent.context)
    /\ IsSome(agent.active_system_prompt)
    /\ IsSome(get_active_system_prompt(agent.user_id))
    /\ TheValue(agent.context).system_prompt = PromptText(agent.active_system_prompt)
    /\ TheValue(agent.context).system_prompt #
          PromptText(get_active_system_prompt(agent.user_id))

Appended ==
    /\ last' # last
    /\ last'.op = "add_message"
    /\ last'.ret = "ok"

StampOf(rows, c) == (CHOOSE cv \in rows : cv.id = c).updated_at

ListedAfterAppend ==
    /\ last.op = "add_message"
    /\ last.ret = "ok"
    /\ last'.op = "list_conversations"
    /\ last'.u = last.u

(* C21 as stated: after add_message(C, U, ...) succeeds, updated_at of C is
   later than before the call and list_conversations(U) returns C first. *)
C21_LaterAndListedFirst ==
    [][ Appended =>
          /\ StampOf(conversations', last'.c) > StampOf(conversations, last'.c)
          /\ Head(list_conversations_returns(conversations', last'.u,
                                             DefaultConversationLimit, 0)).id = last'.c
      ]_vars

(* C21, amended: after add_message(C, U, ...) succeeds, updated_at of C is
   the clock reading of the call, not earlier than before and later when
   the clock has moved since C was stamped; list_conversations(U), called
   before anything else is written, returns C before every conversation of
   U stamped earlier, and first when no other conversation of U bears the
   same stamp. *)
C21_NotEarlierAndListedBeforeOlder ==
    [][ /\ Appended =>
              /\ StampOf(conversations', last'.c) = now
              /\ StampOf(conversations', last'.c) >= StampOf(conversations, last'.c)
              /\ now > StampOf(conversations, last'.c) =>
                    StampOf(conversations', last'.c) > StampOf(conversations, last'.c)
        /\ ListedAfterAppend =>
              LET ids == last'.ret
                  at(c) == CHOOSE i \in 1..Len(ids) : ids[i] = c
                  mine == {cv \in conversations : cv.user_id = last.u}
                  stamp == StampOf(conversations, last.c)
              IN  /\ \E i \in 1..Len(ids) : ids[i] = last.c
                  /\ \A cv \in mine :
                        cv.updated_at < stamp => at(last.c) < at(cv.id)
                  /\ (\A cv \in mine : cv.id # last.c => cv.updated_at # stamp)
                        => ids[1] = last.c
      ]_vars

(* an older conversation of a user who owns a newer one was appended to
   after the clock moved, and now heads the user's list *)
C21_Witness ==
    /\ last.op = "add_message"
    /\ last.ret = "ok"
    /\ \E cv \in conversations :
          /\ cv.user_id = last.u
          /\ cv.id > last.c
          /\ cv.updated_at < StampOf(conversations, last.c)
    /\ Head(list_conversations_returns(conversations, last.u,
                                       DefaultConversationLimit, 0)).id = last.c

(* the one arrangement of the rows ascending by creation time, rows of equal
   creation time by rowid *)
Ascending(S) ==
    CHOOSE f \in [1..Cardinality(S) -> S] :
        \A i, j \in 1..Cardinality(S) :
            i < j => \/ f[i].created_at < f[j].created_at
                     \/ f[i].created_at = f[j].created_at /\ f[i].id < f[j].id

Returned ==
    /\ last' # last
    /\ last'.op = "get_messages"

(* C22: get_messages(C, U, limit, offset) returns nothing when C does not
   resolve for U; otherwise the messages at positions offset .. offset +
   limit - 1 of the transcript of C, which is ascending by creation time
   and, among messages of equal creation time, in the order they were
   inserted: an append puts the new message at the end of the transcript
   and leaves the order of the others. *)
C22_TranscriptWindow ==
    [][ /\ Appended =>
              \E m \in messages' \ messages :
                  OrderMessages({x \in messages' : x.conversation_id = last'.c}) =
                      Append(OrderMessages(MessagesOf(last'.c)), m)
        /\ Returned =>
              LET r == last'.ret
                  full == Ascending(MessagesOf(last'.c))
                  k == Max({0, Min({r.limit, Len(full) - r.offset})})
              IN  IF \E cv \in conversations :
                         cv.id = last'.c /\ cv.user_id = last'.u
                  THEN r.ids = [i \in 1..k |-> full[r.offset + i].id]
                  ELSE r.ids = <<>>
      ]_vars

(* a call with offset 1 and limit 1 returned the later inserted of two
   messages created at the same instant *)
C22_Witness ==
    /\ last.op = "get_messages"
    /\ last.ret.offset = 1
    /\ last.ret.limit = 1
    /\ Len(last.ret.ids) = 1
    /\ \E m1, m2 \in MessagesOf(last.c) :
          /\ m1.id < m2.id
          /\ m1.created_at = m2.created_at
          /\ last.ret.ids[1] = m2.id

(* C23: a failure while the title of a new conversation is derived or
   persisted does not end the request: the title step always hands over to
   the agent call without a response, the reply of the agent is what is
   saved next, and when that save succeeds the response reports success
   with the conversation id and the id of the stored assistant message. *)
C23_TitleFailureSwallowed ==
    [][ \A r \in Reqs :
          /\ (req[r].pc = "title" /\ req'[r] # req[r]) =>
                /\ req'[r].pc = "chat"
                /\ req'[r].response = None
          /\ (req[r].pc = "chat" /\ req'[r] # req[r]) =>
                req'[r].pc = "save_assistant"
          /\ (req[r].pc = "save_assistant" /\ IsSome(req[r].title)
                /\ messages' \ messages # {}) =>
                /\ req'[r].pc = "done"
                /\ TheValue(req'[r].response).success
                /\ TheValue(req'[r].response).conversation_id =
                      Some(req[r].conversation_id)
                /\ \E m \in messages' \ messages :
                      /\ TheValue(req'[r].response).message_id = Some(m.id)
                      /\ m.role = "assistant"
                      /\ m.content = req[r].ai_response
                      /\ m.conversation_id = req[r].conversation_id
      ]_vars

(* update_conversation was called with the derived title and raised (no
   title is stored), and the request has answered success with both ids *)
C23_Witness ==
    \E r \in Reqs :
        /\ req[r].pc = "done"
        /\ IsSome(req[r].title)
        /\ TheValue(req[r].response).success
        /\ TheValue(req[r].response).conversation_id = Some(req[r].conversation_id)
        /\ IsSome(TheValue(req[r].response).message_id)
        /\ \E cv \in conversations :
              cv.id = req[r].conversation_id /\ cv.title = None

(* C24: a stored message is never changed, and it is removed only by the
   deletion of the conversation it references: in every step each stored
   message is either kept as it is, or no row keeps its id and the
   conversation it references is deleted in that step. *)
C24_MessagesImmutable ==
    [][ \A m \in messages :
          \/ m \in messages'
          \/ /\ \A x \in messages' : x.id # m.id
             /\ \E cv \in conversations : cv.id = m.conversation_id
             /\ \A cv \in conversations' : cv.id # m.conversation_id
      ]_vars

(* a conversation was deleted after other writes while a message of another
   conversation, stored before, is still there *)
C24_Witness ==
    /\ last.op = "delete_conversation"
    /\ last.ret = "true"
    /\ \E m \in messages : m.conversation_id # last.c /\ m.created_at < now

Resolves ==
    /\ agent.pc = "none"
    /\ agent'.pc = "ready"

(* C25: get_active(U), as the constructor of an Agent calls it, returns a
   prompt of U flagged active when there is one; otherwise the prompt of U
   with the smallest id; otherwise nothing. *)
C25_ActiveElseFirstElseAbsent ==
    [][ Resolves =>
          LET u == agent'.user_id
              got == agent'.active_system_prompt
              mine == {sp \in system_prompts : sp.user_id = u}
          IN  /\ (\E sp \in mine : sp.is_active) =>
                    /\ IsSome(got)
                    /\ TheValue(got) \in mine
                    /\ TheValue(got).is_active
              /\ (mine # {} /\ \A sp \in mine : ~sp.is_active) =>
                    /\ IsSome(got)
                    /\ TheValue(got) \in mine
                    /\ \A sp \in mine : TheValue(got).id <= sp.id
              /\ mine = {} => got = None
      ]_vars

(* a prompt with a smaller id is gone, no prompt of the user is flagged
   active, and the call returned a prompt of the user that is not active *)
C25_Witness ==
    /\ agent.pc = "ready"
    /\ IsSome(agent.active_system_prompt)
    /\ TheValue(agent.active_system_prompt) \in system_prompts
    /\ ~TheValue(agent.active_system_prompt).is_active
    /\ TheValue(agent.active_system_prompt).id > 1
    /\ \A sp \in system_prompts : sp.id >= TheValue(agent.active_system_prompt).id
    /\ ActivePromptsOf(agent.user_id) = {}

(* C26: in every reachable state every stored message references a stored
   conversation, also when a conversation is deleted between the lookup
   and the writes of an add_message on it. *)
C26_NoOrphanMessage ==
    \A m \in messages : \E cv \in conversations : cv.id = m.conversation_id

(* add_message had found its conversation, another process deleted it, and
   the flush of add_message raised; messages of other conversations are
   stored *)
C26_Witness ==
    /\ last.op = "add_message"
    /\ last.ret = "StaleDataError"
    /\ \A cv \in conversations : cv.id # last.c
    /\ messages # {}

OwnedMessageIds(u) ==
    {m.id : m \in {x \in messages :
                     \E cv \in conversations :
                         cv.id = x.conversation_id /\ cv.user_id = u}}

(* C27: called with user U, a read of the store returns only conversations
   and messages owned by U (get_messages, list_conversations and
   load_conversation_history), and a write changes only conversations and
   messages owned by U (add_message, delete_conversation).  (The statement
   of the claim; load_conversation_history does not filter by user.) *)
C27_PerUserIsolation ==
    /\ last.op = "get_messages" =>
          \A i \in 1..Len(last.ret.ids) : last.ret.ids[i] \in OwnedMessageIds(last.u)
    /\ last.op = "list_conversations" =>
          \A i \in 1..Len(last.ret) :
              \E cv \in conversations : cv.id = last.ret[i] /\ cv.user_id = last.u
    /\ last.op = "load_conversation_history" =>
          last.ret \subseteq OwnedMessageIds(last.u)

Succeeded(r) ==
    /\ req[r].pc = "done"
    /\ TheValue(req[r].response).success

PositionIn(c, m) ==
    CHOOSE i \in 1..Cardinality(MessagesOf(c)) : OrderMessages(MessagesOf(c))[i] = m

(* C28: when two send requests on the same existing conversation have both
   succeeded, their four messages are stored, in the transcript the user
   message of each request precedes the assistant message of that request,
   and the message_id of each response is the id of the stored assistant
   message whose content is the reply in that response. *)
C28_TwoSendsKeepTheirMessages ==
    \A r1, r2 \in Workers :
        (/\ r1 # r2
         /\ Succeeded(r1)
         /\ Succeeded(r2)
         /\ req[r1].conversation_id = req[r2].conversation_id) =>
            LET c == req[r1].conversation_id
                mine(r) == {TheValue(req[r].user_message),
                            TheValue(req[r].assistant_message)}
            IN  /\ mine(r1) \cup mine(r2) \subseteq MessagesOf(c)
                /\ Cardinality({m.id : m \in mine(r1) \cup mine(r2)}) = 4
                /\ \A r \in {r1, r2} :
                      /\ PositionIn(c, TheValue(req[r].user_message)) <
                            PositionIn(c, TheValue(req[r].assistant_message))
                      /\ \E m \in MessagesOf(c) :
                            /\ TheValue(req[r].response).message_id = Some(m.id)
                            /\ m.role = "assistant"
                            /\ m.content = TheValue(req[r].response).message
                            /\ m.content = req[r].ai_response

(* both requests succeeded on one conversation with different replies, each
   having stored its user message before the other stored its reply *)
C28_Witness ==
    /\ Succeeded(1)
    /\ Succeeded(2)
    /\ req[1].conversation_id = req[2].conversation_id
    /\ req[1].ai_response # req[2].ai_response
    /\ TheValue(req[2].user_message).id < TheValue(req[1].assistant_message).id
    /\ TheValue(req[1].user_message).id < TheValue(req[2].assistant_message).id

(* C29: when set_active(U, P) returns false, its deactivation is committed:
   after the call no prompt of U is active. *)
C29_FalseStillDeactivates ==
    [][ \A t \in Txns :
          (SetActiveCommits(t) /\ last'.ret = "false") =>
              \A sp \in system_prompts' :
                  sp.user_id = txn.session[t].user_id => ~sp.is_active
      ]_vars

(* the last call returned false, and the prompt an earlier call of the user
   had activated is stored and no longer active *)
C29_Witness ==
    /\ last.op = "set_active_system_prompt"
    /\ last.ret = "false"
    /\ IsSome(txn.committed[last.u])
    /\ \E sp \in system_prompts :
          /\ sp.user_id = last.u
          /\ sp.id = TheValue(txn.committed[last.u])
          /\ ~sp.is_active
    /\ ActivePromptsOf(last.u) = {}

(* C30: a send request that fails at the boundary after it created its
   conversation answers success=false without a conversation id, and the
   failing step removes nothing: the created conversation and the user
   message already stored remain. *)
C30_NoCompensationOnFailure ==
    [][ \A r \in Reqs :
          ( /\ req[r].pc \in {"agent", "save_user", "save_assistant"}
            /\ req[r].inserted[1] = 1
            /\ req'[r].pc = "done"
            /\ ~TheValue(req'[r].response).success ) =>
              /\ TheValue(req'[r].response).conversation_id = None
              /\ TheValue(req'[r].response).message_id = None
              /\ conversations' = conversations
              /\ messages' = messages
      ]_vars

(* a failed request whose conversation and user message are stored *)
C30_Witness ==
    \E r \in Reqs :
        /\ req[r].pc = "done"
        /\ req[r].inserted = <<1, 1>>
        /\ ~TheValue(req[r].response).success
        /\ TheValue(req[r].response).conversation_id = None
        /\ \E c \in conversations :
              c.id = req[r].conversation_id /\ c.user_id = req[r].user_id
        /\ IsSome(req[r].user_message)
        /\ TheValue(req[r].user_message) \in messages

====
